---- MODULE Spec2Model ----
(***************************************************************************)
(* The chat engine of the repository: the Turn Lifecycle Controller        *)
(* (chat.controller.ts, chat.service.ts), the memory service               *)
(* (memory.service.ts) and the stores they act on (the Message and         *)
(* Conversation collections, the Pinecone index).                          *)
(*                                                                         *)
(* Every `await` of the source is a suspension point: an action is the     *)
(* code a handler runs from one resumption to its next suspension, and a   *)
(* request's pc names the call it is suspended on.  Strings are sequences  *)
(* of one-character strings; scores are tenths (7 stands for 0.7).         *)
(***************************************************************************)
EXTENDS Integers, Sequences, FiniteSets, TLC

\* ------------------------------------------------------------------ bounds

\* HTTP requests accepted over a run.
MaxStarts == 2
\* Items the Generator's stream yields before it ends or fails.
MaxChunks == 2
\* Vectors the archival of conversation 3 may have left in A's namespace
\* beside the seed (SearchSpec).
MaxVectors == 5
\* Messages beyond the newest SHORT_TERM_LIMIT a conversation may hold when
\* an archival run loads it (ArchiveSpec).
MaxEligible == 9

\* ------------------------------------------------------- program constants

SHORT_TERM_LIMIT == 20
MEMORY_SEARCH_LIMIT == 5
\* .filter((match) => (match.score || 0) >= 0.7), in tenths
SCORE_THRESHOLD == 7
\* archiveToLongTermMemory: for (i = 0; ...; i += 4)
CHUNK_SIZE == 4

Users == {"A", "B"}
\* Conversations 1 (owned by A, fresh) and 2 (owned by B, SHORT_TERM_LIMIT
\* turns long) exist at the start; 3 (A's) and 4 (B's) were archived and
\* deleted before it.
ConvIds == {1, 2, 3, 4}
LiveConvs == {1, 2}
OwnerOf(c) == IF c \in {1, 3} THEN "A" ELSE "B"
\* Conversation ids a request may name (a deleted conversation is named
\* once 1 or 2 has been deleted).
TargetConvs == {1, 2}
\* Conversation ids a get, list or delete may name: 3 is the id of a
\* conversation that no longer exists.
ProbeConvs == {1, 2, 3}
Reqs == {"r1", "r2"}

NOT_FOUND == "Conversation not found"
EMPTY_MESSAGE == "Message cannot be empty"
DB_ERROR == "store unavailable"
GEN_ERROR == "generator failed"
EMBED_ERROR == "Failed to generate embedding"
VALIDATION_ERROR == "content is required"
FALLBACK == <<"I", "?">>

\* Message bodies a client may send (the field may also be absent).
Texts == {<< >>, <<" ">>, <<" ", " ">>, <<"a">>}
\* response.text of generateContent: empty or undefined is << >>.
GenTexts == {<< >>, <<"x">>}
\* chunk.text of the k-th streamed item: empty (or undefined), or the k-th
\* fragment of the answer.
Fragment(k) == <<<<"x">>, <<"y">>, <<"z">>, <<"w">>>>[((k - 1) % 4) + 1]
ChunkTexts(k) == {<< >>, Fragment(k)}
\* match.score of the index: NoScore is an absent score.
NoScore == 0 - 1
ScoreVals == {NoScore, 5, 7, 9}

VARIABLES
    convs,      \* Conversation collection: ConvIds -> document
    msgs,       \* Message collection, in insertion (timestamp) order
    index,      \* Pinecone index: set of vectors with namespace and metadata
    req,        \* per request slot: the handler's locals and its response
    nextId,     \* next Message _id
    started,    \* requests accepted so far
    clock,      \* Date.now(), as a logical clock
    arch,       \* background archival runs, by the serial of their exchange
    hist        \* history: what has happened to each conversation so far

vars == <<convs, msgs, index, req, nextId, started, clock, arch, hist>>

\* ------------------------------------------------------------------ helpers

RECURSIVE TrimStart(_)
TrimStart(s) ==
    IF s # << >> /\ Head(s) = " " THEN TrimStart(Tail(s)) ELSE s

RECURSIVE TrimEnd(_)
TrimEnd(s) ==
    IF s # << >> /\ s[Len(s)] = " " THEN TrimEnd(SubSeq(s, 1, Len(s) - 1)) ELSE s

\* String.prototype.trim
Trim(s) == TrimEnd(TrimStart(s))

\* Mutant of IsEmptyMessage: !message, without the trim.
IsFalsyMessage(present, text) == ~present \/ Len(text) = 0

\* chat.controller.ts sendMessage: !message || message.trim().length === 0
IsEmptyMessage(present, text) ==
    \/ ~present
    \/ Len(text) = 0
    \/ Len(Trim(text)) = 0

\* Message.find({ conversation: c }).sort({ timestamp: 1 })
MessagesOf(c) == SelectSeq(msgs, LAMBDA m : m.conv = c)

\* Mutant of Slice: the element at index to is taken too.
SliceInclusive(s, from, to) ==
    LET lo == IF from < 0 THEN 0 ELSE from
        hi == IF to + 1 > Len(s) THEN Len(s) ELSE to + 1
    IN  IF lo >= hi THEN << >> ELSE SubSeq(s, lo + 1, hi)

\* Array.prototype.slice(from, to), 0-based, to exclusive
Slice(s, from, to) ==
    LET lo == IF from < 0 THEN 0 ELSE from
        hi == IF to > Len(s) THEN Len(s) ELSE to
    IN  IF lo >= hi THEN << >> ELSE SubSeq(s, lo + 1, hi)

\* Array.prototype.reverse
Reverse(s) == [i \in 1..Len(s) |-> s[Len(s) + 1 - i]]

\* Query.sort({ timestamp: -1 }) of messages held in timestamp order
SortNewestFirst(ms) == Reverse(ms)

\* Query.limit(n)
Limit(s, n) == IF Len(s) <= n THEN s ELSE SubSeq(s, 1, n)

\* Mutant of getShortTermContext: the result of the query is returned as it
\* comes, newest first.
getShortTermContextNewestFirst(c) ==
    Limit(SortNewestFirst(MessagesOf(c)), SHORT_TERM_LIMIT)

\* memory.service.ts getShortTermContext: newest SHORT_TERM_LIMIT, reversed
\* back to chronological order
getShortTermContext(c) ==
    Reverse(Limit(SortNewestFirst(MessagesOf(c)), SHORT_TERM_LIMIT))

\* The alternating history a conversation has after n/2 buffered exchanges.
SeedMsgs(c, n) ==
    [i \in 1..n |->
        [id |-> i, conv |-> c,
         role |-> IF i % 2 = 1 THEN "user" ELSE "model",
         content |-> IF i % 2 = 1 THEN <<"a">> ELSE <<"x">>]]

\* Vectors left in the index by the archival of conversations 3 and 4.
SeedVectors ==
    { [id |-> <<0, 1>>, ns |-> "A", userId |-> "A", conv |-> 3,
       timestamp |-> 0,
       text |-> <<[label |-> "User", content |-> <<"a">>, turn |-> 1]>>],
      [id |-> <<0, 2>>, ns |-> "B", userId |-> "B", conv |-> 4,
       timestamp |-> 0,
       text |-> <<[label |-> "User", content |-> <<"a">>, turn |-> 1]>>] }

IdleReq ==
    [pc |-> "idle", op |-> "none", user |-> "A", conv |-> 1, text |-> << >>,
     snap |-> 0, chatRole |-> "assistant", history |-> << >>,
     memories |-> << >>, outscored |-> FALSE, full |-> << >>, yielded |-> 0,
     headersSent |-> FALSE, ended |-> FALSE, events |-> << >>,
     status |-> 0, message |-> "", count |-> 0, userMsg |-> 0, aiMsg |-> 0,
     genCalls |-> 0, embedCalls |-> 0, serial |-> 0, degraded |-> FALSE,
     matches |-> << >>, closed |-> FALSE]


\* ------------------------------------------------------------ vector index

\* (match.score || 0)
ScoreOrZero(s) == IF s = NoScore THEN 0 ELSE s

Injective(s) == \A i, j \in DOMAIN s : s[i] = s[j] => i = j

\* Mutant of Namespace: the query is not confined to a namespace.
NamespaceAll(ns) == index

\* pineconeIndex.namespace(ns): the vectors a query or an upsert can touch
Namespace(ns) == {v \in index : v.ns = ns}

ScoreOf(sim, v) == (CHOOSE p \in sim : p[1] = v.id)[2]

\* The ways to list the k most similar vectors of cand (all of them when
\* there are fewer), most similar first: vectors of equal similarity come in
\* any order.
RECURSIVE MostSimilar(_, _, _)
MostSimilar(cand, sim, k) ==
    IF k = 0 \/ cand = {} THEN {<< >>}
    ELSE LET best == {v \in cand :
                        \A w \in cand : ScoreOf(sim, v) >= ScoreOf(sim, w)}
         IN  UNION {{<<v>> \o rest : rest \in MostSimilar(cand \ {v}, sim, k - 1)} :
                        v \in best}

\* namespace(ns).query({ vector, topK, includeMetadata: true }).matches: the
\* topK most similar vectors of the namespace, most similar first.  sim is
\* the similarity the index computes between the query vector and each
\* stored vector.
QueryMatches(ns, sim, topK) ==
    { [i \in 1..Len(s) |->
          [id |-> s[i].id, score |-> ScoreOf(sim, s[i]),
           metadata |-> [text |-> s[i].text,
                         conversationId |-> s[i].conv,
                         userId |-> s[i].userId,
                         timestamp |-> s[i].timestamp]]] :
      s \in MostSimilar(Namespace(ns), sim, topK) }

\* Mutant of RelevantMemories: the filter is score > 0.7.
RelevantMemoriesStrict(matches) ==
    LET kept == SelectSeq(matches,
                    LAMBDA m : ScoreOrZero(m.score) > SCORE_THRESHOLD)
    IN  [i \in 1..Len(kept) |->
            [text |-> kept[i].metadata.text,
             score |-> ScoreOrZero(kept[i].score),
             conversationId |-> kept[i].metadata.conversationId,
             timestamp |-> kept[i].metadata.timestamp,
             vec |-> kept[i].id]]

\* Mutant of RelevantMemories: the fragments are returned last match first.
RelevantMemoriesReversed(matches) ==
    LET kept == SelectSeq(matches,
                    LAMBDA m : ScoreOrZero(m.score) >= SCORE_THRESHOLD)
        n == Len(kept)
    IN  [i \in 1..n |->
            [text |-> kept[n + 1 - i].metadata.text,
             score |-> ScoreOrZero(kept[n + 1 - i].score),
             conversationId |-> kept[n + 1 - i].metadata.conversationId,
             timestamp |-> kept[n + 1 - i].metadata.timestamp,
             vec |-> kept[n + 1 - i].id]]

\* memory.service.ts searchLongTermMemory, after the query returned:
\* .filter(score >= 0.7).map(...).  vec is the identity of the vector a
\* fragment was read from (kept for the statements about ownership).
RelevantMemories(matches) ==
    LET kept == SelectSeq(matches,
                    LAMBDA m : ScoreOrZero(m.score) >= SCORE_THRESHOLD)
    IN  [i \in 1..Len(kept) |->
            [text |-> kept[i].metadata.text,
             score |-> ScoreOrZero(kept[i].score),
             conversationId |-> kept[i].metadata.conversationId,
             timestamp |-> kept[i].metadata.timestamp,
             vec |-> kept[i].id]]

\* The namespace searchLongTermMemory queries for a requester.
SearchNamespace(userId) == userId

\* The similarities an index may report for one query.
Sims ==
    LET ids == {v.id : v \in index}
    IN  { {<<i, f[i]>> : i \in ids} : f \in [ids -> ScoreVals] }

\* ------------------------------------------------------------ responses

ChunkEvent(t) == [type |-> "chunk", content |-> t, messageId |-> 0, message |-> ""]
DoneEvent(id, t) == [type |-> "done", content |-> t, messageId |-> id, message |-> ""]
ErrorEvent(m) == [type |-> "error", content |-> << >>, messageId |-> 0, message |-> m]

\* The handler has returned: its locals are gone, its response stays.
Finished(q) ==
    [q EXCEPT !.pc = "done", !.snap = 0,
              !.chatRole = "assistant", !.history = << >>,
              !.memories = << >>, !.outscored = FALSE, !.full = << >>,
              !.yielded = 0, !.serial = 0, !.degraded = FALSE,
              !.matches = << >>, !.closed = FALSE]

\* The Generator has answered: the context handed to it is dead.
Generated(q) ==
    [q EXCEPT !.history = << >>, !.memories = << >>, !.outscored = FALSE,
              !.degraded = FALSE, !.matches = << >>]

\* res.status(code).json({ success, message })
Respond(q, code, m) == Finished([q EXCEPT !.status = code, !.message = m])

\* Mutant of ControllerCatch: the error is swallowed and 200 is answered.
ControllerCatchSwallow(q, m) == Respond(q, 200, m)

\* chat.controller.ts: the catch block of every handler
ControllerCatch(q, m) ==
    IF q.headersSent
    THEN Finished([q EXCEPT !.events = Append(@, ErrorEvent(m)), !.ended = TRUE])
    ELSE Respond(q, IF m = NOT_FOUND THEN 404 ELSE 500, m)

\* Mutant of StreamCatch: no finally, the channel stays open.
StreamCatchOpen(q, m) ==
    Finished([q EXCEPT !.events = Append(@, ErrorEvent(m))])

\* Mutant of StreamCatch: the channel is closed without an error event.
StreamCatchSilent(q, m) == Finished([q EXCEPT !.ended = TRUE])

\* sendMessageStream: catch { res.write(error) } finally { res.end() }
StreamCatch(q, m) ==
    Finished([q EXCEPT !.events = Append(@, ErrorEvent(m)), !.ended = TRUE])

\* Mutant of FindOwned: findOne({ _id: c }), without the owner.
FindAnyOwner(c, u) == convs[c].exists

\* Conversation.findOne({ _id: c, user: u })
FindOwned(c, u) == convs[c].exists /\ convs[c].user = u

NewMessage(c, role, content) ==
    [id |-> nextId, conv |-> c, role |-> role, content |-> content]

NoArchive ==
    [pc |-> "none", conv |-> 1, user |-> "A", toArchive |-> << >>,
     chunks |-> << >>]

Init ==
    /\ convs = [c \in ConvIds |->
            [exists |-> c \in LiveConvs, user |-> OwnerOf(c),
             chatRole |-> IF c = 1 THEN "coder" ELSE "assistant",
             messageCount |-> IF c = 2 THEN SHORT_TERM_LIMIT ELSE 0,
             lastActivity |-> 0, memoryStored |-> FALSE]]
    /\ msgs = SeedMsgs(2, SHORT_TERM_LIMIT)
    /\ nextId = SHORT_TERM_LIMIT + 1
    /\ index = SeedVectors
    /\ req = [r \in Reqs |-> IdleReq]
    /\ started = 0
    /\ clock = 0
    /\ arch = [e \in 1..MaxStarts |-> NoArchive]
    /\ hist = [inbound |-> [c \in LiveConvs |-> 0],
               completed |-> [c \in LiveConvs |-> 0],
               updated |-> [c \in LiveConvs |-> 0],
               removed |-> {}]



\* ------------------------------------------------- chat.controller.ts

\* A request can be accepted on slot r: the slots are interchangeable, so
\* the second is first used once the first has been.
Free(r) ==
    /\ req[r].pc \in {"idle", "done"}
    /\ started < MaxStarts
    /\ r = "r2" => req["r1"].pc # "idle"

\* Mutant of PostMessage: the SSE headers of a streamed send are flushed
\* before the service is called.
PostMessageOpensChannel(r, u, c, stream, present, text) ==
    /\ Free(r)
    /\ present \/ text = << >>
    /\ started' = started + 1
    /\ LET q == [IdleReq EXCEPT !.op = IF stream THEN "stream" ELSE "send",
                                !.user = u, !.conv = c, !.text = text,
                                !.serial = started + 1]
       IN  req' = [req EXCEPT ![r] =
                IF IsEmptyMessage(present, text)
                THEN Respond(q, 400, EMPTY_MESSAGE)
                ELSE [q EXCEPT !.pc = "findConv", !.headersSent = stream]]
    /\ UNCHANGED <<convs, msgs, index, nextId, clock, arch, hist>>

\* sendMessage (controller), up to the first await of the service it calls:
\* validation, then sendMessage or sendMessageStream issues findOne.
PostMessage(r, u, c, stream, present, text) ==
    /\ Free(r)
    /\ present \/ text = << >>
    /\ started' = started + 1
    /\ LET q == [IdleReq EXCEPT !.op = IF stream THEN "stream" ELSE "send",
                                !.user = u, !.conv = c, !.text = text,
                                !.serial = started + 1]
       IN  req' = [req EXCEPT ![r] =
                IF IsEmptyMessage(present, text)
                THEN Respond(q, 400, EMPTY_MESSAGE)
                ELSE [q EXCEPT !.pc = "findConv"]]
    /\ UNCHANGED <<convs, msgs, index, nextId, clock, arch, hist>>

\* ---------------------------------------------------- chat.service.ts

\* Mutant of getConversationById: after the ownership check the exchange
\* assembles its context at once, without persisting the user message.
getConversationByIdThenContext(r) ==
    /\ req[r].pc = "findConv"
    /\ req[r].op \in {"send", "stream"}
    /\ LET q == req[r]
       IN  \/ /\ ~FindOwned(q.conv, q.user)
              /\ req' = [req EXCEPT ![r] = ControllerCatch(q, NOT_FOUND)]
           \/ /\ FindOwned(q.conv, q.user)
              /\ req' = [req EXCEPT ![r] =
                    [q EXCEPT !.pc = "shortTerm",
                              !.snap = convs[q.conv].messageCount,
                              !.chatRole = convs[q.conv].chatRole]]
    /\ UNCHANGED <<convs, msgs, index, nextId, started, clock, arch, hist>>

\* getConversationById, as called by sendMessage and sendMessageStream:
\* findOne resolves; a miss throws, a hit issues Message.create.
getConversationById(r) ==
    /\ req[r].pc = "findConv"
    /\ req[r].op \in {"send", "stream"}
    /\ LET q == req[r]
       IN  \/ req' = [req EXCEPT ![r] = ControllerCatch(q, DB_ERROR)]
           \/ /\ ~FindOwned(q.conv, q.user)
              /\ req' = [req EXCEPT ![r] = ControllerCatch(q, NOT_FOUND)]
           \/ /\ FindOwned(q.conv, q.user)
              /\ req' = [req EXCEPT ![r] =
                    [q EXCEPT !.pc = "createUser",
                              !.snap = convs[q.conv].messageCount,
                              !.chatRole = convs[q.conv].chatRole]]
    /\ UNCHANGED <<convs, msgs, index, nextId, started, clock, arch, hist>>

\* Message.create({ role: "user" }) resolves; buildContext issues the
\* short-term read.
CreateUserMessage(r) ==
    /\ req[r].pc = "createUser"
    /\ LET q == req[r]
       IN  \/ /\ req' = [req EXCEPT ![r] = ControllerCatch(q, DB_ERROR)]
              /\ UNCHANGED <<msgs, nextId>>
              /\ UNCHANGED hist
           \/ /\ msgs' = Append(msgs, NewMessage(q.conv, "user", q.text))
              /\ nextId' = nextId + 1
              /\ req' = [req EXCEPT ![r] =
                    [q EXCEPT !.pc = "shortTerm", !.userMsg = nextId]]
              /\ hist' = [hist EXCEPT !.inbound[q.conv] = @ + 1]
    /\ UNCHANGED <<convs, index, started, clock, arch>>

\* buildContext step 4: msg -> { role, parts: [{ text }] }
FormatHistory(ms) ==
    [i \in 1..Len(ms) |-> [role |-> ms[i].role, text |-> ms[i].content]]

\* buildContext: getShortTermContext resolves; searchLongTermMemory starts.
ShortTermContext(r) ==
    /\ req[r].pc = "shortTerm"
    /\ LET q == req[r]
       IN  \/ req' = [req EXCEPT ![r] = ControllerCatch(q, DB_ERROR)]
           \/ req' = [req EXCEPT ![r] =
                    [q EXCEPT !.pc = "search", !.embedCalls = @ + 1,
                              !.history = FormatHistory(getShortTermContext(q.conv))]]
    /\ UNCHANGED <<convs, msgs, index, nextId, started, clock, arch, hist>>

\* buildContext steps 1-3: recentMemories and the system instruction are
\* what the handler holds; the instruction is the persona's prompt followed,
\* when memories came back, by the guidance block with their texts.
\* The instruction is a string, held as the sequence of its parts.
\* SYSTEM_PROMPTS: one prompt per chatRole
ChatRoles == {"assistant", "coder", "teacher", "creative"}

SYSTEM_PROMPTS == [p \in ChatRoles |-> [part |-> "prompt", of |-> p]]

\* "\n\nYou have the following context from previous conversations ...:\n\n"
GUIDANCE == [part |-> "guidance"]

\* "\n---\n"
SEPARATOR == [part |-> "separator"]

\* The text of a memory, as a part of the instruction.
MemoryText(m) == [part |-> "memory", text |-> m.text]

\* Array.prototype.join(sep) on the parts ps
RECURSIVE Join(_, _)
Join(ps, sep) ==
    IF Len(ps) = 0 THEN << >>
    ELSE IF Len(ps) = 1 THEN <<ps[1]>>
    ELSE <<ps[1], sep>> \o Join(Tail(ps), sep)

\* Mutant of systemInstruction: the guidance block is appended whether or
\* not a memory came back.
systemInstructionAlwaysGuided(q) ==
    <<SYSTEM_PROMPTS[q.chatRole], GUIDANCE>>
        \o Join([i \in 1..Len(q.memories) |-> MemoryText(q.memories[i])],
                SEPARATOR)

systemInstruction(q) ==
    IF Len(q.memories) > 0
    THEN <<SYSTEM_PROMPTS[q.chatRole], GUIDANCE>>
            \o Join([i \in 1..Len(q.memories) |-> MemoryText(q.memories[i])],
                    SEPARATOR)
    ELSE <<SYSTEM_PROMPTS[q.chatRole]>>

\* Some vector outside the namespace of u is more similar to the query than
\* every vector inside it (kept for the statements about isolation).
Outscored(u, sim) ==
    \E w \in index \ Namespace(SearchNamespace(u)) :
        \A v \in Namespace(SearchNamespace(u)) : ScoreOf(sim, w) > ScoreOf(sim, v)

\* searchLongTermMemory resolves (embedding or query failed: [] is returned),
\* buildContext returns, the new message is pushed to the history and the
\* Generator is called; sendMessageStream flushes the SSE headers first.
\* buildContext has returned with the memories mem: the new message is
\* pushed to the history, sendMessageStream flushes the SSE headers, and the
\* Generator is called.
CallGenerator(q, mem, sim) ==
    [q EXCEPT !.pc = IF q.op = "stream" THEN "genStream" ELSE "generate",
              !.memories = mem, !.outscored = Outscored(q.user, sim),
              !.history = Append(@, [role |-> "user", text |-> q.text]),
              !.headersSent = (q.op = "stream"),
              !.genCalls = @ + 1]

\* Mutant of SearchFailed: the error of the Embedder or of the index leaves
\* searchLongTermMemory and reaches the controller.
SearchFailedThrow(q) == ControllerCatch(q, EMBED_ERROR)

\* searchLongTermMemory: catch (error) { return [] }
SearchFailed(q) ==
    [CallGenerator(q, << >>, {<<v.id, NoScore>> : v \in index})
        EXCEPT !.degraded = TRUE]

SearchMemory(r) ==
    /\ req[r].pc = "search"
    /\ LET q == req[r]
       IN  \/ req' = [req EXCEPT ![r] = SearchFailed(q)]
           \/ \E sim \in Sims :
                \E matches \in QueryMatches(SearchNamespace(q.user), sim,
                                            MEMORY_SEARCH_LIMIT) :
                    req' = [req EXCEPT ![r] =
                        [CallGenerator(q, RelevantMemories(matches), sim)
                            EXCEPT !.matches = matches]]
    /\ UNCHANGED <<convs, msgs, index, nextId, started, clock, arch, hist>>

\* Mutant of UpdateCounters: the update has no filter and writes every
\* conversation document.
UpdateCountersAll(c, count) ==
    [d \in ConvIds |->
        IF convs[d].exists
        THEN [convs[d] EXCEPT !.messageCount = count, !.lastActivity = clock + 1]
        ELSE convs[d]]

\* Conversation.findByIdAndUpdate(c, { messageCount, lastActivity })
UpdateCounters(c, count) ==
    [convs EXCEPT ![c] =
        IF @.exists
        THEN [@ EXCEPT !.messageCount = count, !.lastActivity = clock + 1]
        ELSE @]

\* Mutant of TriggerArchive: the threshold is totalMessages >= 20.
TriggerArchiveAtLimit(q) ==
    IF q.snap + 2 >= SHORT_TERM_LIMIT
    THEN [arch EXCEPT ![q.serial] =
            [NoArchive EXCEPT !.pc = "find", !.conv = q.conv, !.user = q.user]]
    ELSE arch

\* if (totalMessages > 20) archiveToLongTermMemory(...).catch(...): the run
\* starts and suspends on its Message.find
TriggerArchive(q) ==
    IF q.snap + 2 > SHORT_TERM_LIMIT
    THEN [arch EXCEPT ![q.serial] =
            [NoArchive EXCEPT !.pc = "find", !.conv = q.conv, !.user = q.user]]
    ELSE arch

\* Mutant of Generate: response.text is used as it comes, no fallback.
GenerateNoFallback(r) ==
    /\ req[r].pc = "generate"
    /\ LET q == req[r]
       IN  \/ req' = [req EXCEPT ![r] = ControllerCatch(q, GEN_ERROR)]
           \/ \E t \in GenTexts :
                req' = [req EXCEPT ![r] =
                    [Generated(q) EXCEPT !.pc = "createAi", !.full = t]]
    /\ UNCHANGED <<convs, msgs, index, nextId, started, clock, arch, hist>>

\* Mutant of Generate: the conversation is updated and archival triggered
\* also when generateContent rejects.
GenerateThenUpdate(r) ==
    /\ req[r].pc = "generate"
    /\ LET q == req[r]
       IN  \/ /\ req' = [req EXCEPT ![r] = ControllerCatch(q, GEN_ERROR)]
              /\ convs' = UpdateCounters(q.conv, q.snap + 2)
              /\ arch' = TriggerArchive(q)
           \/ /\ \E t \in GenTexts :
                    req' = [req EXCEPT ![r] =
                        [Generated(q) EXCEPT !.pc = "createAi",
                                  !.full = IF t = << >> THEN FALLBACK ELSE t]]
              /\ UNCHANGED <<convs, arch>>
    /\ UNCHANGED <<msgs, index, nextId, started, clock, hist>>

\* sendMessage: generateContent resolves or rejects.
Generate(r) ==
    /\ req[r].pc = "generate"
    /\ LET q == req[r]
       IN  \/ req' = [req EXCEPT ![r] = ControllerCatch(q, GEN_ERROR)]
           \/ \E t \in GenTexts :
                req' = [req EXCEPT ![r] =
                    [Generated(q) EXCEPT !.pc = "createAi",
                              !.full = IF t = << >> THEN FALLBACK ELSE t]]
    /\ UNCHANGED <<convs, msgs, index, nextId, started, clock, arch, hist>>

\* sendMessage: Message.create({ role: "model" }) resolves.
CreateAiMessage(r) ==
    /\ req[r].pc = "createAi"
    /\ req[r].op = "send"
    /\ LET q == req[r]
       IN  \/ /\ req' = [req EXCEPT ![r] = ControllerCatch(q, DB_ERROR)]
              /\ UNCHANGED <<msgs, nextId>>
           \/ /\ msgs' = Append(msgs, NewMessage(q.conv, "model", q.full))
              /\ nextId' = nextId + 1
              /\ req' = [req EXCEPT ![r] =
                    [q EXCEPT !.pc = "update", !.aiMsg = nextId]]
    /\ UNCHANGED <<convs, index, started, clock, arch, hist>>

\* Mutant of UpdateConversation: the archival run is awaited, the exchange
\* staying suspended on it.
UpdateConversationAwait(r) ==
    /\ req[r].pc = "update"
    /\ req[r].op = "send"
    /\ LET q == req[r]
       IN  /\ convs' = UpdateCounters(q.conv, q.snap + 2)
           /\ clock' = clock + 1
           /\ arch' = TriggerArchive(q)
           /\ req' = [req EXCEPT ![r] =
                    IF q.snap + 2 > SHORT_TERM_LIMIT
                    THEN [q EXCEPT !.pc = "archive"]
                    ELSE Respond(q, 200, "")]
           /\ hist' = [hist EXCEPT !.completed[q.conv] = @ + 1,
                                   !.updated[q.conv] = @ + 1]
    /\ UNCHANGED <<msgs, index, nextId, started>>

\* sendMessage: findByIdAndUpdate resolves, archival is triggered, the
\* controller answers 200 with both messages.
UpdateConversation(r) ==
    /\ req[r].pc = "update"
    /\ req[r].op = "send"
    /\ LET q == req[r]
       IN  \/ /\ req' = [req EXCEPT ![r] = ControllerCatch(q, DB_ERROR)]
              /\ UNCHANGED <<convs, clock, arch, hist>>
           \/ /\ convs' = UpdateCounters(q.conv, q.snap + 2)
              /\ clock' = clock + 1
              /\ arch' = TriggerArchive(q)
              /\ req' = [req EXCEPT ![r] = Respond(q, 200, "")]
              /\ hist' = [hist EXCEPT !.completed[q.conv] = @ + 1,
                                      !.updated[q.conv] = @ + 1]
    /\ UNCHANGED <<msgs, index, nextId, started>>

\* sendMessageStream: generateContentStream resolves or rejects.
OpenStream(r) ==
    /\ req[r].pc = "genStream"
    /\ LET q == req[r]
       IN  \/ req' = [req EXCEPT ![r] = StreamCatch(q, GEN_ERROR)]
           \/ req' = [req EXCEPT ![r] = [Generated(q) EXCEPT !.pc = "iterate"]]
    /\ UNCHANGED <<convs, msgs, index, nextId, started, clock, arch, hist>>

\* Mutant of Accumulate: fullResponse = text
AccumulateLast(full, t) == t

\* sendMessageStream: fullResponse += text
Accumulate(full, t) == full \o t

\* sendMessageStream: one turn of `for await (const chunk of stream)`: an
\* item arrives, the stream ends (Message.create is issued) or it fails.
NextChunk(r) ==
    /\ req[r].pc = "iterate"
    /\ LET q == req[r]
       IN  \/ /\ q.yielded < MaxChunks
              /\ \E t \in ChunkTexts(q.yielded + 1) :
                    req' = [req EXCEPT ![r] =
                        IF t # << >>
                        THEN [q EXCEPT !.yielded = @ + 1,
                                       !.full = Accumulate(@, t),
                                       !.events = Append(@, ChunkEvent(t))]
                        ELSE [q EXCEPT !.yielded = @ + 1]]
           \/ req' = [req EXCEPT ![r] = [q EXCEPT !.pc = "createAi"]]
           \/ req' = [req EXCEPT ![r] = StreamCatch(q, GEN_ERROR)]
    /\ UNCHANGED <<convs, msgs, index, nextId, started, clock, arch, hist>>

\* sendMessageStream: Message.create({ role: "model", content: fullResponse })
\* resolves and the done event is written, or it rejects (the store failed,
\* or content, which the schema requires, is the empty string).
CreateAiMessageStream(r) ==
    /\ req[r].pc = "createAi"
    /\ req[r].op = "stream"
    /\ LET q == req[r]
       IN  \/ /\ req' = [req EXCEPT ![r] = StreamCatch(q, DB_ERROR)]
              /\ UNCHANGED <<msgs, nextId>>
           \/ /\ q.full = << >>
              /\ req' = [req EXCEPT ![r] = StreamCatch(q, VALIDATION_ERROR)]
              /\ UNCHANGED <<msgs, nextId>>
           \/ /\ q.full # << >>
              /\ msgs' = Append(msgs, NewMessage(q.conv, "model", q.full))
              /\ nextId' = nextId + 1
              /\ req' = [req EXCEPT ![r] =
                    [q EXCEPT !.pc = "update", !.aiMsg = nextId,
                              !.events = Append(@, DoneEvent(nextId, q.full))]]
    /\ UNCHANGED <<convs, index, started, clock, arch, hist>>

\* sendMessageStream: findByIdAndUpdate resolves or rejects; finally res.end().
UpdateConversationStream(r) ==
    /\ req[r].pc = "update"
    /\ req[r].op = "stream"
    /\ LET q == req[r]
       IN  \/ /\ req' = [req EXCEPT ![r] = StreamCatch(q, DB_ERROR)]
              /\ UNCHANGED <<convs, clock, arch, hist>>
           \/ /\ convs' = UpdateCounters(q.conv, q.snap + 2)
              /\ clock' = clock + 1
              /\ arch' = TriggerArchive(q)
              /\ req' = [req EXCEPT ![r] = Finished([q EXCEPT !.ended = TRUE])]
              /\ hist' = [hist EXCEPT !.updated[q.conv] = @ + 1]
    /\ UNCHANGED <<msgs, index, nextId, started>>

\* The client of a streamed exchange closes its connection while the channel
\* is open.  sendMessageStream registers no listener on req or res ("close",
\* "error") and reads neither res.writableEnded nor res.destroyed, so the
\* handler's state does not change: closed records the event.
Disconnect(r) ==
    /\ req[r].headersSent /\ ~req[r].ended /\ ~req[r].closed
    /\ req[r].pc \in {"genStream", "iterate", "createAi", "update"}
    /\ req' = [req EXCEPT ![r].closed = TRUE]
    /\ UNCHANGED <<convs, msgs, index, nextId, started, clock, arch, hist>>

\* getConversation (controller) calls getConversationById; getMessages
\* calls getConversationMessages; deleteConversation calls the service of
\* the same name: each suspends on its findOne.
GetRequest(r, o, u, c) ==
    /\ Free(r)
    /\ started' = started + 1
    /\ req' = [req EXCEPT ![r] =
            [IdleReq EXCEPT !.op = o, !.user = u, !.conv = c, !.pc = "findConv",
                            !.serial = started + 1]]
    /\ UNCHANGED <<convs, msgs, index, nextId, clock, arch, hist>>

\* getConversation: getConversationById resolves and the controller answers.
getConversation(r) ==
    /\ req[r].pc = "findConv"
    /\ req[r].op = "get"
    /\ LET q == req[r]
       IN  \/ req' = [req EXCEPT ![r] = ControllerCatch(q, DB_ERROR)]
           \/ /\ ~FindOwned(q.conv, q.user)
              /\ req' = [req EXCEPT ![r] = ControllerCatch(q, NOT_FOUND)]
           \/ /\ FindOwned(q.conv, q.user)
              /\ req' = [req EXCEPT ![r] = Respond(q, 200, "")]
    /\ UNCHANGED <<convs, msgs, index, nextId, started, clock, arch, hist>>

\* getConversationMessages: the ownership check resolves; Message.find is
\* issued.
getConversationMessages(r) ==
    /\ req[r].pc = "findConv"
    /\ req[r].op = "list"
    /\ LET q == req[r]
       IN  \/ req' = [req EXCEPT ![r] = ControllerCatch(q, DB_ERROR)]
           \/ /\ ~FindOwned(q.conv, q.user)
              /\ req' = [req EXCEPT ![r] = ControllerCatch(q, NOT_FOUND)]
           \/ /\ FindOwned(q.conv, q.user)
              /\ req' = [req EXCEPT ![r] = [q EXCEPT !.pc = "findMsgs"]]
    /\ UNCHANGED <<convs, msgs, index, nextId, started, clock, arch, hist>>

\* getConversationMessages: Message.find resolves; the controller answers
\* with the messages and their count.
ListMessages(r) ==
    /\ req[r].pc = "findMsgs"
    /\ LET q == req[r]
       IN  \/ req' = [req EXCEPT ![r] = ControllerCatch(q, DB_ERROR)]
           \/ req' = [req EXCEPT ![r] =
                    Respond([q EXCEPT !.count = Len(MessagesOf(q.conv))], 200, "")]
    /\ UNCHANGED <<convs, msgs, index, nextId, started, clock, arch, hist>>

\* deleteConversation: findOne resolves; a hit issues Message.deleteMany.
deleteConversation(r) ==
    /\ req[r].pc = "findConv"
    /\ req[r].op = "delete"
    /\ LET q == req[r]
       IN  \/ req' = [req EXCEPT ![r] = ControllerCatch(q, DB_ERROR)]
           \/ /\ ~FindOwned(q.conv, q.user)
              /\ req' = [req EXCEPT ![r] = ControllerCatch(q, NOT_FOUND)]
           \/ /\ FindOwned(q.conv, q.user)
              /\ req' = [req EXCEPT ![r] = [q EXCEPT !.pc = "deleteMany"]]
    /\ UNCHANGED <<convs, msgs, index, nextId, started, clock, arch, hist>>

\* deleteConversation: Message.deleteMany({ conversation }) resolves;
\* Conversation.deleteOne is issued.
DeleteMessages(r) ==
    /\ req[r].pc = "deleteMany"
    /\ LET q == req[r]
       IN  \/ /\ req' = [req EXCEPT ![r] = ControllerCatch(q, DB_ERROR)]
              /\ UNCHANGED <<msgs, hist>>
           \/ /\ msgs' = SelectSeq(msgs, LAMBDA m : m.conv # q.conv)
              /\ hist' = [hist EXCEPT !.removed =
                    @ \cup {[id |-> m.id, conv |-> m.conv] : m \in
                              {msgs[i] : i \in {j \in DOMAIN msgs : msgs[j].conv = q.conv}}}]
              /\ req' = [req EXCEPT ![r] = [q EXCEPT !.pc = "deleteOne"]]
    /\ UNCHANGED <<convs, index, nextId, started, clock, arch>>

\* Mutant of DeleteDocument: the vectors made from the conversation are
\* deleted from the index with its document.
DeleteDocumentAndVectors(r) ==
    /\ req[r].pc = "deleteOne"
    /\ LET q == req[r]
       IN  \/ /\ req' = [req EXCEPT ![r] = ControllerCatch(q, DB_ERROR)]
              /\ UNCHANGED <<convs, index>>
           \/ /\ convs' = [convs EXCEPT ![q.conv].exists = FALSE]
              /\ index' = {v \in index : v.conv # q.conv}
              /\ req' = [req EXCEPT ![r] = Respond(q, 200, "")]
    /\ UNCHANGED <<msgs, nextId, started, clock, arch, hist>>

\* deleteConversation: Conversation.deleteOne({ _id }) resolves; 200.
DeleteDocument(r) ==
    /\ req[r].pc = "deleteOne"
    /\ LET q == req[r]
       IN  \/ /\ req' = [req EXCEPT ![r] = ControllerCatch(q, DB_ERROR)]
              /\ UNCHANGED convs
           \/ /\ convs' = [convs EXCEPT ![q.conv].exists = FALSE]
              /\ req' = [req EXCEPT ![r] = Respond(q, 200, "")]
    /\ UNCHANGED <<msgs, index, nextId, started, clock, arch, hist>>

\* ------------------------------------------------- memory.service.ts

\* archiveToLongTermMemory: `${role === "user" ? "User" : "AI"}: ${content}`
\* for each message of a group, the lines joined by "\n" (turn is the _id of
\* the message a line was made from, kept for the statements about what a
\* record holds)
ChunkText(group) ==
    [i \in 1..Len(group) |->
        [label |-> IF group[i].role = "user" THEN "User" ELSE "AI",
         content |-> group[i].content, turn |-> group[i].id]]

\* Mutant of Chunks: a trailing group of fewer than 4 messages is dropped.
RECURSIVE ChunksOfFull(_)
ChunksOfFull(ms) ==
    IF Len(ms) < CHUNK_SIZE THEN << >>
    ELSE <<ChunkText(Slice(ms, 0, CHUNK_SIZE))>>
            \o ChunksOfFull(Slice(ms, CHUNK_SIZE, Len(ms)))

\* archiveToLongTermMemory: for (i = 0; i < n; i += 4) chunks.push(...)
RECURSIVE Chunks(_)
Chunks(ms) ==
    IF ms = << >> THEN << >>
    ELSE <<ChunkText(Slice(ms, 0, CHUNK_SIZE))>>
            \o Chunks(Slice(ms, CHUNK_SIZE, Len(ms)))

\* Mutant of ArchiveNamespace: the upsert names no namespace and goes to the
\* default one.
ArchiveNamespaceDefault(userId) == ""

\* The namespace archiveToLongTermMemory upserts into for a user.
ArchiveNamespace(userId) == userId

\* Mutant of Vectors: the id of a vector is the position of its chunk alone,
\* the same from one run to the next.
VectorsReusedIds(e, a) ==
    { [id |-> <<0, i + 1>>, ns |-> ArchiveNamespace(a.user), userId |-> a.user,
       conv |-> a.conv, timestamp |-> clock, text |-> a.chunks[i]] :
      i \in 1..Len(a.chunks) }

\* The vectors prepared from the chunks of run e (the uuid of a vector is
\* the pair of the run and the position of its chunk).
Vectors(e, a) ==
    { [id |-> <<e, i>>, ns |-> ArchiveNamespace(a.user), userId |-> a.user,
       conv |-> a.conv, timestamp |-> clock, text |-> a.chunks[i]] :
      i \in 1..Len(a.chunks) }

\* The run has returned: its promise is fulfilled.
ArchiveReturned(e) == arch' = [arch EXCEPT ![e] = [NoArchive EXCEPT !.pc = "done"]]

\* Mutant of ArchiveCaught: the error leaves archiveToLongTermMemory, whose
\* promise is rejected.
ArchiveRethrown(e) ==
    arch' = [arch EXCEPT ![e] = [NoArchive EXCEPT !.pc = "rejected"]]

\* archiveToLongTermMemory: catch (error) { console.error(...) }: the call
\* the run was suspended on has failed; the error is logged and the run
\* returns.
ArchiveCaught(e) ==
    arch' = [arch EXCEPT ![e] =
                [NoArchive EXCEPT !.pc = "caught", !.conv = arch[e].conv]]

\* archiveToLongTermMemory: Message.find resolves; nothing to do at or below
\* the limit, else the older messages are set aside and findById is issued.
ArchiveLoad(e) ==
    /\ arch[e].pc = "find"
    /\ LET a == arch[e]
           all == MessagesOf(a.conv)
       IN  \/ ArchiveCaught(e)
           \/ /\ Len(all) <= SHORT_TERM_LIMIT
              /\ ArchiveReturned(e)
           \/ /\ Len(all) > SHORT_TERM_LIMIT
              /\ arch' = [arch EXCEPT ![e] =
                    [a EXCEPT !.pc = "findConv",
                              !.toArchive = Slice(all, 0, Len(all) - SHORT_TERM_LIMIT)]]
    /\ UNCHANGED <<convs, msgs, index, req, nextId, started, clock, hist>>

\* archiveToLongTermMemory: findById resolves; the chunks are built and
\* generateEmbeddings is called.
ArchiveCheckConversation(e) ==
    /\ arch[e].pc = "findConv"
    /\ LET a == arch[e]
       IN  \/ ArchiveCaught(e)
           \/ /\ ~convs[a.conv].exists
              /\ ArchiveReturned(e)
           \/ /\ convs[a.conv].exists
              /\ arch' = [arch EXCEPT ![e] =
                    [a EXCEPT !.pc = "embed", !.toArchive = << >>,
                              !.chunks = Chunks(a.toArchive)]]
    /\ UNCHANGED <<convs, msgs, index, req, nextId, started, clock, hist>>

\* archiveToLongTermMemory: generateEmbeddings resolves; upsert is issued.
ArchiveEmbed(e) ==
    /\ arch[e].pc = "embed"
    /\ \/ ArchiveCaught(e)
       \/ arch' = [arch EXCEPT ![e].pc = "upsert"]
    /\ UNCHANGED <<convs, msgs, index, req, nextId, started, clock, hist>>

\* namespace(ns).upsert(vectors): a vector whose id the namespace already
\* holds replaces the one held, any other is added.
Upsert(idx, vs) ==
    {v \in idx : \A w \in vs : ~(w.ns = v.ns /\ w.id = v.id)} \cup vs

\* Mutant of ArchiveUpsert: memoryStored is written when the upsert settles,
\* whether it succeeded or not.
ArchiveUpsertThenMark(e) ==
    /\ arch[e].pc = "upsert"
    /\ \/ /\ ArchiveCaught(e)
          /\ UNCHANGED index
       \/ /\ index' = Upsert(index, Vectors(e, arch[e]))
          /\ arch' = [arch EXCEPT ![e] = [@ EXCEPT !.pc = "flag", !.chunks = << >>]]
    /\ convs' = [convs EXCEPT ![arch[e].conv] =
            IF @.exists THEN [@ EXCEPT !.memoryStored = TRUE] ELSE @]
    /\ UNCHANGED <<msgs, req, nextId, started, clock, hist>>

\* archiveToLongTermMemory: namespace(...).upsert(vectors) resolves;
\* findByIdAndUpdate({ memoryStored: true }) is issued.
ArchiveUpsert(e) ==
    /\ arch[e].pc = "upsert"
    /\ \/ /\ ArchiveCaught(e)
          /\ UNCHANGED index
       \/ /\ index' = Upsert(index, Vectors(e, arch[e]))
          /\ arch' = [arch EXCEPT ![e] = [@ EXCEPT !.pc = "flag", !.chunks = << >>]]
    /\ UNCHANGED <<convs, msgs, req, nextId, started, clock, hist>>

\* archiveToLongTermMemory: findByIdAndUpdate resolves.
ArchiveFlag(e) ==
    /\ arch[e].pc = "flag"
    /\ \/ /\ ArchiveCaught(e)
          /\ UNCHANGED convs
       \/ /\ convs' = [convs EXCEPT ![arch[e].conv] =
                IF @.exists THEN [@ EXCEPT !.memoryStored = TRUE] ELSE @]
          /\ ArchiveReturned(e)
    /\ UNCHANGED <<msgs, index, req, nextId, started, clock, hist>>

\* What request r does when the call it is suspended on settles.
Resume(r) ==
    \/ getConversationById(r) \/ CreateUserMessage(r) \/ ShortTermContext(r)
    \/ SearchMemory(r) \/ Generate(r) \/ CreateAiMessage(r)
    \/ UpdateConversation(r) \/ OpenStream(r) \/ NextChunk(r)
    \/ CreateAiMessageStream(r) \/ UpdateConversationStream(r)
    \/ getConversation(r) \/ getConversationMessages(r) \/ ListMessages(r)
    \/ deleteConversation(r) \/ DeleteMessages(r) \/ DeleteDocument(r)

Next ==
    \/ \E r \in Reqs, o \in {"get", "list", "delete"}, u \in Users,
          c \in ProbeConvs : GetRequest(r, o, u, c)
    \/ \E r \in Reqs : getConversation(r)
    \/ \E r \in Reqs : getConversationMessages(r)
    \/ \E r \in Reqs : ListMessages(r)
    \/ \E r \in Reqs : deleteConversation(r)
    \/ \E r \in Reqs : DeleteMessages(r)
    \/ \E r \in Reqs : DeleteDocument(r)
    \/ \E e \in 1..MaxStarts : ArchiveLoad(e)
    \/ \E e \in 1..MaxStarts : ArchiveCheckConversation(e)
    \/ \E e \in 1..MaxStarts : ArchiveEmbed(e)
    \/ \E e \in 1..MaxStarts : ArchiveUpsert(e)
    \/ \E e \in 1..MaxStarts : ArchiveFlag(e)
    \/ \E r \in Reqs, u \in Users, c \in TargetConvs, stream \in BOOLEAN,
          present \in BOOLEAN, text \in Texts :
            PostMessage(r, u, c, stream, present, text)
    \/ \E r \in Reqs : getConversationById(r)
    \/ \E r \in Reqs : CreateUserMessage(r)
    \/ \E r \in Reqs : ShortTermContext(r)
    \/ \E r \in Reqs : SearchMemory(r)
    \/ \E r \in Reqs : Generate(r)
    \/ \E r \in Reqs : CreateAiMessage(r)
    \/ \E r \in Reqs : UpdateConversation(r)
    \/ \E r \in Reqs : OpenStream(r)
    \/ \E r \in Reqs : NextChunk(r)
    \/ \E r \in Reqs : CreateAiMessageStream(r)
    \/ \E r \in Reqs : UpdateConversationStream(r)
    \/ \E r \in Reqs : Disconnect(r)

Spec == Init /\ [][Next]_vars

\* ---------------------------------------------------------- retrieval alone

\* The n further vectors the archival of conversation 3 left in A's namespace.
MoreVectors(n) ==
    { [id |-> <<0, 2 + i>>, ns |-> "A", userId |-> "A", conv |-> 3,
       timestamp |-> 0,
       text |-> <<[label |-> "User", content |-> <<"a">>, turn |-> 1 + i]>>] :
      i \in 1..n }

\* A buffered exchange of A on conversation 1 is suspended on
\* searchLongTermMemory (its user message persisted, its short-term context
\* read), A's namespace holding 1 to 1 + MaxVectors vectors.
SearchInit ==
    /\ convs = [c \in ConvIds |->
            [exists |-> c \in LiveConvs, user |-> OwnerOf(c),
             chatRole |-> IF c = 1 THEN "coder" ELSE "assistant",
             messageCount |-> IF c = 2 THEN SHORT_TERM_LIMIT ELSE 0,
             lastActivity |-> 0, memoryStored |-> FALSE]]
    /\ msgs = Append(SeedMsgs(2, SHORT_TERM_LIMIT),
                     [id |-> SHORT_TERM_LIMIT + 1, conv |-> 1, role |-> "user",
                      content |-> <<"a">>])
    /\ nextId = SHORT_TERM_LIMIT + 2
    /\ \E n \in 0..MaxVectors : index = SeedVectors \cup MoreVectors(n)
    /\ \E stream \in BOOLEAN :
          req = [r \in Reqs |->
                IF r = "r1"
                THEN [IdleReq EXCEPT
                        !.pc = "search",
                        !.op = IF stream THEN "stream" ELSE "send",
                        !.text = <<"a">>, !.chatRole = "coder",
                        !.userMsg = SHORT_TERM_LIMIT + 1, !.embedCalls = 1,
                        !.serial = 1,
                        !.history = <<[role |-> "user", text |-> <<"a">>]>>]
                ELSE IdleReq]
    /\ started = 1
    /\ clock = 0
    /\ arch = [e \in 1..MaxStarts |-> NoArchive]
    /\ hist = [inbound |-> [c \in LiveConvs |-> IF c = 1 THEN 1 ELSE 0],
               completed |-> [c \in LiveConvs |-> 0],
               updated |-> [c \in LiveConvs |-> 0],
               removed |-> {}]

SearchNext == \E r \in Reqs : SearchMemory(r)

\* searchLongTermMemory applied to every content of the namespace and every
\* similarity the index may report.
SearchSpec == SearchInit /\ [][SearchNext]_vars

\* ------------------------------------------------- a late first exchange

\* A buffered exchange of A on the fresh conversation 1 ran its ownership
\* lookup (messageCount 0) and is still suspended on the Message.create of
\* its user message, while a buffered exchange accepted after it has run to
\* completion on the same conversation: two messages, messageCount 2.
LateInit ==
    /\ convs = [c \in ConvIds |->
            [exists |-> c \in LiveConvs, user |-> OwnerOf(c),
             chatRole |-> IF c = 1 THEN "coder" ELSE "assistant",
             messageCount |-> IF c = 2 THEN SHORT_TERM_LIMIT
                              ELSE IF c = 1 THEN 2 ELSE 0,
             lastActivity |-> 1, memoryStored |-> FALSE]]
    /\ msgs = SeedMsgs(2, SHORT_TERM_LIMIT) \o
                <<[id |-> SHORT_TERM_LIMIT + 1, conv |-> 1, role |-> "user",
                   content |-> <<"a">>],
                  [id |-> SHORT_TERM_LIMIT + 2, conv |-> 1, role |-> "model",
                   content |-> <<"x">>]>>
    /\ nextId = SHORT_TERM_LIMIT + 3
    /\ index = SeedVectors
    /\ req = [r \in Reqs |->
            IF r = "r1"
            THEN [IdleReq EXCEPT !.pc = "createUser", !.op = "send",
                                 !.text = <<"a">>, !.snap = 0,
                                 !.chatRole = "coder", !.serial = 1]
            ELSE IdleReq]
    /\ started = 1
    /\ clock = 1
    /\ arch = [e \in 1..MaxStarts |-> NoArchive]
    /\ hist = [inbound |-> [c \in LiveConvs |-> IF c = 1 THEN 1 ELSE 0],
               completed |-> [c \in LiveConvs |-> IF c = 1 THEN 1 ELSE 0],
               updated |-> [c \in LiveConvs |-> IF c = 1 THEN 1 ELSE 0],
               removed |-> {}]

\* The program from there on, the late exchange being the first of the
\* MaxStarts requests of the run.
LateSpec == LateInit /\ [][Next]_vars

\* ------------------------------------------- a late exchange at the limit

\* Conversation 1 holds 20 messages and messageCount 20: a buffered exchange
\* of A ran its ownership lookup when it held 18 (messageCount 18) and is
\* still suspended on the Message.create of its user message, while a
\* buffered exchange accepted after it has run to completion.
BoundaryInit ==
    /\ convs = [c \in ConvIds |->
            [exists |-> c \in LiveConvs, user |-> OwnerOf(c),
             chatRole |-> IF c = 1 THEN "coder" ELSE "assistant",
             messageCount |-> IF c \in LiveConvs THEN SHORT_TERM_LIMIT ELSE 0,
             lastActivity |-> 1, memoryStored |-> FALSE]]
    /\ msgs = SeedMsgs(2, SHORT_TERM_LIMIT) \o
                [i \in 1..SHORT_TERM_LIMIT |->
                    [id |-> SHORT_TERM_LIMIT + i, conv |-> 1,
                     role |-> IF i % 2 = 1 THEN "user" ELSE "model",
                     content |-> IF i % 2 = 1 THEN <<"a">> ELSE <<"x">>]]
    /\ nextId = 2 * SHORT_TERM_LIMIT + 1
    /\ index = SeedVectors
    /\ req = [r \in Reqs |->
            IF r = "r1"
            THEN [IdleReq EXCEPT !.pc = "createUser", !.op = "send",
                                 !.text = <<"a">>,
                                 !.snap = SHORT_TERM_LIMIT - 2,
                                 !.chatRole = "coder", !.serial = 1]
            ELSE IdleReq]
    /\ started = 1
    /\ clock = 1
    /\ arch = [e \in 1..MaxStarts |-> NoArchive]
    /\ hist = [inbound |-> [c \in LiveConvs |-> 0],
               completed |-> [c \in LiveConvs |-> 0],
               updated |-> [c \in LiveConvs |-> 0],
               removed |-> {}]

\* The program from there on, the late exchange being the first of the
\* MaxStarts requests of the run.
BoundarySpec == BoundaryInit /\ [][Next]_vars

\* ----------------------------------------------------------- archival alone

\* An archival run started for conversation 2 is suspended on its
\* Message.find, the conversation holding 0 to SHORT_TERM_LIMIT + MaxEligible
\* messages.
ArchiveInit ==
    /\ convs = [c \in ConvIds |->
            [exists |-> c \in LiveConvs, user |-> OwnerOf(c),
             chatRole |-> IF c = 1 THEN "coder" ELSE "assistant",
             messageCount |-> IF c = 2 THEN SHORT_TERM_LIMIT + 2 ELSE 0,
             lastActivity |-> 1, memoryStored |-> FALSE]]
    /\ \E n \in 0..(SHORT_TERM_LIMIT + MaxEligible) :
          /\ msgs = SeedMsgs(2, n)
          /\ nextId = n + 1
    /\ index = SeedVectors
    /\ req = [r \in Reqs |-> IdleReq]
    /\ started = 0
    /\ clock = 1
    /\ arch = [e \in 1..MaxStarts |->
                IF e = 1
                THEN [NoArchive EXCEPT !.pc = "find", !.conv = 2, !.user = "B"]
                ELSE NoArchive]
    /\ hist = [inbound |-> [c \in LiveConvs |-> 0],
               completed |-> [c \in LiveConvs |-> 0],
               updated |-> [c \in LiveConvs |-> 0],
               removed |-> {}]

\* The run, and the deletions of the conversation that may overtake it.
ArchiveNext ==
    \/ \E e \in 1..MaxStarts : ArchiveLoad(e)
    \/ \E e \in 1..MaxStarts : ArchiveCheckConversation(e)
    \/ \E e \in 1..MaxStarts : ArchiveEmbed(e)
    \/ \E e \in 1..MaxStarts : ArchiveUpsert(e)
    \/ \E e \in 1..MaxStarts : ArchiveFlag(e)
    \/ \E r \in Reqs, u \in Users : GetRequest(r, "delete", u, 2)
    \/ \E r \in Reqs : deleteConversation(r)
    \/ \E r \in Reqs : DeleteMessages(r)
    \/ \E r \in Reqs : DeleteDocument(r)

\* archiveToLongTermMemory applied to conversations of every length around
\* the limit.
ArchiveSpec == ArchiveInit /\ [][ArchiveNext]_vars

\* Every call a handler awaits settles (the stores and the providers answer
\* or fail, the Generator's stream ends or fails), and the event loop then
\* runs the continuation.
FairSpec == Spec /\ \A r \in Reqs : WF_vars(Resume(r))


\* ------------------------------------------------------------ statements

InStore(id) == \E i \in DOMAIN msgs : msgs[i].id = id
Removed(id) == \E m \in hist.removed : m.id = id
Turn(id) == msgs[CHOOSE i \in DOMAIN msgs : msgs[i].id = id]
Exchange(q) == q.op \in {"send", "stream"}
\* The message of a send is absent, empty or made of spaces only.
BlankMessage(q) == Exchange(q) /\ \A i \in DOMAIN q.text : q.text[i] = " "
\* The requester of q is not the owner of the conversation q names.
CrossOwner(q) == q.op # "none" /\ q.user # OwnerOf(q.conv)
Terminals(ev) == {i \in DOMAIN ev : ev[i].type \in {"done", "error"}}

\* C1: in every reachable state the messageCount of a conversation equals
\* the number of persisted messages that reference it.
C1_CountEqualsTurns ==
    \A c \in LiveConvs :
        convs[c].exists => convs[c].messageCount = Len(MessagesOf(c))

\* C2: once N buffered exchanges have completed on the fresh conversation,
\* and nothing else has written to it, its messageCount is 2N and the store
\* holds exactly 2N messages of it, user and model alternating in creation
\* order.
C2_BufferedExchanges ==
    LET c == 1
        n == hist.completed[c]
        ms == MessagesOf(c)
    IN  (/\ convs[c].exists
         /\ hist.inbound[c] = n
         /\ \A m \in hist.removed : m.conv # c)
        => /\ convs[c].messageCount = 2 * n
           /\ Len(ms) = 2 * n
           /\ \A i \in DOMAIN ms :
                ms[i].role = IF i % 2 = 1 THEN "user" ELSE "model"


\* C3: a search run for a requester returns only fragments read from
\* vectors whose owning user is that requester, also when another user's
\* namespace holds a vector more similar to the query than any of the
\* requester's own.
C3_NamespaceIsolation ==
    \A r \in Reqs : \A i \in DOMAIN req[r].memories :
        /\ \E v \in index : v.id = req[r].memories[i].vec
        /\ \A v \in index :
              v.id = req[r].memories[i].vec => v.userId = req[r].user

\* A search has returned a fragment of the requester while a vector of the
\* other user scored higher than every vector of the requester.
C3_Witness ==
    \E r \in Reqs : req[r].memories # << >> /\ req[r].outscored

\* What C4 says of a state.
C4_CrossOwnerState ==
    \A r \in Reqs :
        CrossOwner(req[r]) =>
            /\ req[r].pc \in {"findConv", "done"}
            /\ req[r].userMsg = 0 /\ req[r].aiMsg = 0
            /\ req[r].genCalls = 0
            /\ (req[r].pc = "done" /\ ~BlankMessage(req[r])
                    /\ req[r].message # DB_ERROR)
                => req[r].status = 404 /\ req[r].message = NOT_FOUND

\* C4: an operation (send, stream, get, list, delete) a requester invokes
\* with a well-formed request on a conversation of another owner never gets
\* past its ownership lookup: it creates and deletes no message, the step
\* that answers it leaves the stores as they are, and, the store having
\* answered the lookup, it fails with 404 "Conversation not found".
C4_CrossOwner ==
    /\ []C4_CrossOwnerState
    /\ [][\A r \in Reqs :
            (CrossOwner(req[r]') /\ req[r]' # req[r])
                => (msgs' = msgs /\ convs' = convs /\ index' = index)]_vars

\* Both slots hold a request of a non-owner answered 404: a delete and an
\* exchange.
C4_Witness ==
    \E r, s \in Reqs :
        /\ CrossOwner(req[r]) /\ req[r].op = "delete" /\ req[r].status = 404
        /\ CrossOwner(req[s]) /\ Exchange(req[s]) /\ req[s].status = 404
        /\ convs[req[r].conv].exists /\ convs[req[s].conv].exists

\* What C5 says of a state.
C5_EmptyRejectedState ==
    \A r \in Reqs :
        BlankMessage(req[r]) =>
            /\ req[r].pc = "done"
            /\ req[r].status = 400 /\ req[r].message = EMPTY_MESSAGE
            /\ req[r].userMsg = 0 /\ req[r].aiMsg = 0
            /\ req[r].genCalls = 0 /\ req[r].embedCalls = 0
            /\ ~req[r].headersSent

\* C5: a send, buffered or streamed, whose message is absent, empty or only
\* spaces is answered 400 at once: it persists no message, calls neither the
\* Generator nor the Embedder, and the answering step changes no store.
C5_EmptyRejected ==
    /\ []C5_EmptyRejectedState
    /\ [][\A r \in Reqs :
            (BlankMessage(req[r]') /\ req[r]' # req[r])
                => (msgs' = msgs /\ convs' = convs /\ index' = index
                    /\ arch' = arch)]_vars

\* A streamed send of spaces to an existing conversation of the requester
\* has been rejected.
C5_Witness ==
    \E r \in Reqs :
        /\ req[r].op = "stream" /\ req[r].text = <<" ", " ">>
        /\ req[r].status = 400
        /\ FindOwned(req[r].conv, req[r].user)

\* What C6 says of a state.
C6_GeneratorFailureState ==
    \A r \in Reqs :
        (req[r].op = "send" /\ req[r].pc = "done" /\ req[r].message = GEN_ERROR)
            => /\ req[r].status = 500
               /\ req[r].aiMsg = 0
               /\ req[r].userMsg # 0
               /\ InStore(req[r].userMsg) \/ Removed(req[r].userMsg)
               /\ InStore(req[r].userMsg) =>
                     /\ Turn(req[r].userMsg).role = "user"
                     /\ Turn(req[r].userMsg).conv = req[r].conv
                     /\ Turn(req[r].userMsg).content = req[r].text

\* C6: a buffered exchange whose Generator call fails is answered with an
\* error (500); the failing step leaves the Message collection as it is, so
\* the user message the exchange persisted stays (until a deletion of the
\* conversation removes it) and the exchange creates no model message.
C6_BufferedGeneratorFailure ==
    /\ []C6_GeneratorFailureState
    /\ [][\A r \in Reqs :
            (req[r].pc = "generate" /\ req[r]'.pc = "done") => msgs' = msgs]_vars

\* A buffered exchange has failed at the Generator and its user message is
\* in the store.
C6_Witness ==
    \E r \in Reqs :
        /\ req[r].op = "send" /\ req[r].pc = "done"
        /\ req[r].message = GEN_ERROR
        /\ InStore(req[r].userMsg)


RECURSIVE Concat(_)
Concat(ss) == IF ss = << >> THEN << >> ELSE Head(ss) \o Concat(Tail(ss))

\* The contents of the chunk events among the first n events.
ChunkContents(ev, n) ==
    LET ch == SelectSeq(SubSeq(ev, 1, n), LAMBDA e : e.type = "chunk")
    IN  [i \in 1..Len(ch) |-> ch[i].content]

\* C7: a streamed exchange whose channel was opened writes at most one
\* terminal event (done or error), and once the channel is closed exactly
\* one, as its last event.
C7_OneTerminalEvent ==
    \A r \in Reqs :
        req[r].headersSent =>
            /\ Cardinality(Terminals(req[r].events)) <= 1
            /\ req[r].ended =>
                  /\ Cardinality(Terminals(req[r].events)) = 1
                  /\ Len(req[r].events) \in Terminals(req[r].events)

\* C8: a channel that has been opened is eventually closed.
C8_ChannelClosed ==
    \A r \in Reqs :
        (req[r].headersSent /\ ~req[r].ended) ~> req[r].ended

\* A channel has been closed after a done event, and another after an error.
C8_Witness ==
    \E r, s \in Reqs :
        /\ req[r].ended /\ req[r].events # << >>
        /\ req[r].events[Len(req[r].events)].type = "done"
        /\ req[s].ended /\ req[s].events # << >>
        /\ req[s].events[Len(req[s].events)].type = "error"

\* C9: in a streamed exchange that wrote a done event, that event is the
\* only done event, every event before it is a chunk and no chunk follows
\* it; its fullContent is the chunk contents concatenated in emission order
\* and is the content of the model message the exchange persisted, whose _id
\* is its messageId; the exchange persisted one user and one model message,
\* and they are the only two messages of a fresh conversation nothing else
\* has written to.
C9_StreamDone ==
    \A r \in Reqs :
        LET q == req[r]
            D == {i \in DOMAIN q.events : q.events[i].type = "done"}
        IN  (q.op = "stream" /\ D # {}) =>
              LET d == CHOOSE i \in D : TRUE
              IN  /\ D = {d}
                  /\ \A i \in 1..(d - 1) : q.events[i].type = "chunk"
                  /\ \A i \in (d + 1)..Len(q.events) : q.events[i].type # "chunk"
                  /\ q.events[d].content = Concat(ChunkContents(q.events, d))
                  /\ q.events[d].content # << >>
                  /\ q.events[d].messageId = q.aiMsg
                  /\ q.aiMsg # 0 /\ q.userMsg # 0 /\ q.aiMsg # q.userMsg
                  /\ InStore(q.aiMsg) \/ Removed(q.aiMsg)
                  /\ InStore(q.aiMsg) =>
                        /\ Turn(q.aiMsg).content = q.events[d].content
                        /\ Turn(q.aiMsg).role = "model"
                        /\ Turn(q.aiMsg).conv = q.conv
                  /\ InStore(q.userMsg) =>
                        /\ Turn(q.userMsg).content = q.text
                        /\ Turn(q.userMsg).role = "user"
                        /\ Turn(q.userMsg).conv = q.conv
                  /\ (/\ q.conv = 1 /\ hist.inbound[1] = 1
                      /\ \A m \in hist.removed : m.conv # 1)
                        => /\ Len(MessagesOf(1)) = 2
                           /\ MessagesOf(1)[1].id = q.userMsg
                           /\ MessagesOf(1)[2].id = q.aiMsg

\* A streamed exchange on the fresh conversation has ended with two chunks
\* and a done event, its two messages the only ones of the conversation.
C9_Witness ==
    \E r \in Reqs :
        /\ req[r].op = "stream" /\ req[r].ended /\ req[r].conv = 1
        /\ Len(req[r].events) = 3
        /\ req[r].events[3].type = "done"
        /\ req[r].events[3].content = <<"x", "y">>
        /\ Len(MessagesOf(1)) = 2

\* What C10 says of a state.
C10_StreamFailureState ==
    \A r \in Reqs :
        LET q == req[r]
            E == {i \in DOMAIN q.events :
                    q.events[i].type = "error" /\ q.events[i].message = GEN_ERROR}
        IN  (q.op = "stream" /\ E # {}) =>
              /\ q.ended /\ q.pc = "done"
              /\ E = {Len(q.events)}
              /\ \A i \in DOMAIN q.events : q.events[i].type # "done"
              /\ q.aiMsg = 0
              /\ q.userMsg # 0
              /\ InStore(q.userMsg) \/ Removed(q.userMsg)
              /\ (q.conv = 1 /\ hist.inbound[1] = 1) =>
                    \A i \in DOMAIN msgs :
                        msgs[i].conv = 1 => msgs[i].role # "model"

\* C10: a streamed exchange whose Generator fails, at the call or after any
\* number of fragments, writes an error event as its last event and closes
\* the channel; it writes no done event and persists no model message, the
\* failing step leaves the Message collection as it is, and the user message
\* of the exchange stays (until a deletion of the conversation removes it).
C10_StreamGeneratorFailure ==
    /\ []C10_StreamFailureState
    /\ [][\A r \in Reqs :
            (req[r].pc \in {"genStream", "iterate"} /\ req[r]'.pc = "done")
                => (msgs' = msgs /\ req[r]'.ended
                    /\ req[r]'.events = Append(req[r].events, ErrorEvent(GEN_ERROR)))]_vars

\* The Generator has failed after a fragment was forwarded; the user message
\* of the exchange is in the store.
C10_Witness ==
    \E r \in Reqs :
        /\ req[r].op = "stream" /\ req[r].ended
        /\ Len(req[r].events) = 2
        /\ req[r].events[1].type = "chunk"
        /\ req[r].events[2] = ErrorEvent(GEN_ERROR)
        /\ InStore(req[r].userMsg)

\* What C11 says of a state: an exchange whose retrieval failed is at its
\* Generator call with no memory, the instruction being the persona's base
\* prompt alone, its user message persisted and nothing answered yet.
C11_DegradedState ==
    \A r \in Reqs :
        req[r].degraded =>
            /\ req[r].pc \in {"generate", "genStream"}
            /\ req[r].memories = << >>
            /\ systemInstruction(req[r]) = <<SYSTEM_PROMPTS[req[r].chatRole]>>
            /\ req[r].genCalls = 1
            /\ req[r].status = 0 /\ req[r].events = << >>
            /\ req[r].userMsg # 0
            /\ InStore(req[r].userMsg) \/ Removed(req[r].userMsg)

\* C11: when the Embedder or the index fails during retrieval,
\* searchLongTermMemory returns the empty list and raises nothing: the step
\* on which the search settles never answers the request and always calls
\* the Generator, after a failure with the persona's base instruction alone,
\* and the exchange goes on exactly as one whose search found nothing.
C11_RetrievalFailureAbsorbed ==
    /\ []C11_DegradedState
    /\ [][\A r \in Reqs :
            (req[r].pc = "search" /\ req[r]' # req[r])
                => /\ req[r]'.pc \in {"generate", "genStream"}
                   /\ req[r]'.genCalls = req[r].genCalls + 1
                   /\ req[r]'.status = 0
                   /\ msgs' = msgs
                   /\ req[r]'.degraded =>
                         [req[r]' EXCEPT !.degraded = FALSE]
                            = CallGenerator(req[r], RelevantMemories(<< >>),
                                  {<<v.id, NoScore>> : v \in index})]_vars

\* The retrieval of a streamed exchange on the "coder" conversation has
\* failed while the requester's namespace held a vector; the Generator has
\* been called and the user message is in the store.
C11_Witness ==
    \E r \in Reqs :
        /\ req[r].degraded /\ req[r].op = "stream"
        /\ req[r].chatRole = "coder"
        /\ Namespace(SearchNamespace(req[r].user)) # {}
        /\ InStore(req[r].userMsg)

\* C12: a failure of any call an archival run awaits (Message.find,
\* findById, generateEmbeddings, upsert, findByIdAndUpdate) is swallowed: the
\* promise of archiveToLongTermMemory is never rejected, and no step of a
\* run touches a request's result, the Message collection, or any field of
\* a conversation other than memoryStored, so the exchange that triggered
\* the run keeps its answer, its two messages and its messageCount update.
C12_ArchiveFailureSwallowed ==
    /\ [](\A e \in DOMAIN arch : arch[e].pc # "rejected")
    /\ [][\A e \in DOMAIN arch :
            (arch[e].pc # "none" /\ arch[e]' # arch[e])
                => /\ req' = req
                   /\ msgs' = msgs
                   /\ \A c \in ConvIds :
                        convs[c]' = [convs[c] EXCEPT
                                        !.memoryStored = convs[c]'.memoryStored]]_vars

\* A run has returned after its upsert succeeded and its flag update failed
\* (its vectors are in the index, memoryStored is still false), and the
\* exchange that triggered it stands: answered 200, its messages in the
\* store, messageCount raised to 22.
C12_Witness ==
    \E e \in DOMAIN arch : \E v \in index : \E r \in Reqs :
        /\ arch[e].pc = "caught"
        /\ v.id[1] = e
        /\ convs[v.conv].exists /\ ~convs[v.conv].memoryStored
        /\ convs[v.conv].messageCount = SHORT_TERM_LIMIT + 2
        /\ req[r].op = "send" /\ req[r].conv = v.conv /\ req[r].status = 200
        /\ InStore(req[r].userMsg) /\ InStore(req[r].aiMsg)
        /\ \A s \in Reqs : req[s].op # "delete"

\* C13: whatever the namespace holds and whatever similarities the index
\* reports, a search returns at most 5 fragments, each with a score of at
\* least 0.7 and read from its own match; a match whose score is exactly 0.7
\* is returned, a match below 0.7 is not, and a match without a score counts
\* as 0 and is not returned.
C13_SearchBounds ==
    \A r \in Reqs :
        LET mem == req[r].memories
            mat == req[r].matches
        IN  /\ Len(mem) <= 5
            /\ Len(mat) <= 5
            /\ Injective([i \in DOMAIN mem |-> mem[i].vec])
            /\ \A i \in DOMAIN mem :
                  /\ mem[i].score >= 7
                  /\ \E j \in DOMAIN mat :
                        mat[j].id = mem[i].vec /\ mat[j].score = mem[i].score
            /\ \A j \in DOMAIN mat :
                  /\ mat[j].score = 7 =>
                        \E i \in DOMAIN mem : mem[i].vec = mat[j].id
                  /\ mat[j].score \in {NoScore, 5} =>
                        \A i \in DOMAIN mem : mem[i].vec # mat[j].id

\* A search over a namespace of more than 5 vectors got 5 matches, one of
\* score exactly 0.7, one below it and one without a score, and returned the
\* two at or above 0.7.
C13_Witness ==
    \E r \in Reqs :
        /\ Cardinality(Namespace(SearchNamespace(req[r].user))) > 5
        /\ Len(req[r].matches) = 5
        /\ \E j \in DOMAIN req[r].matches : req[r].matches[j].score = 7
        /\ \E j \in DOMAIN req[r].matches : req[r].matches[j].score = 5
        /\ \E j \in DOMAIN req[r].matches : req[r].matches[j].score = NoScore
        /\ Len(req[r].memories) = 2
        /\ req[r].memories[2].score = 7

\* C14: an archival run that finds the messages of a conversation as the
\* previous run on it found them upserts nothing again: the index never
\* holds two Archive Records of one conversation with the same chunk text.
C14_ArchiveIdempotent ==
    \A v, w \in index :
        (v.conv = w.conv /\ v.text = w.text) => v.id = w.id

\* The conversation q names does not exist.
Missing(q) == ~convs[q.conv].exists
\* The conversation q names exists and belongs to another user.
NotOwned(q) == convs[q.conv].exists /\ convs[q.conv].user # q.user
\* What the client of q has received.
Response(q) ==
    [status |-> q.status, message |-> q.message, count |-> q.count,
     headersSent |-> q.headersSent, events |-> q.events, ended |-> q.ended]

\* C15: for every operation on a conversation (send, stream, get, list,
\* delete), when the store answers the ownership lookup, the response to a
\* request naming a conversation that does not exist and the response to a
\* request naming a conversation of another user are the same response:
\* 404 "Conversation not found" and nothing else.
C15_MissingAsNotOwned ==
    [][\A r \in Reqs :
        (/\ req[r].pc = "findConv" /\ req[r]' # req[r]
         /\ Missing(req[r]) \/ NotOwned(req[r])
         /\ req[r]'.message # DB_ERROR)
            => /\ req[r]'.pc = "done"
               /\ Response(req[r]') =
                    [status |-> 404, message |-> NOT_FOUND, count |-> 0,
                     headersSent |-> FALSE, events |-> << >>, ended |-> FALSE]]_vars

\* One request named a conversation that does not exist, another the same
\* operation on a conversation of another user, and both got the same
\* response.
C15_Witness ==
    \E r, s \in Reqs :
        /\ req[r].pc = "done" /\ req[s].pc = "done"
        /\ req[r].op = req[s].op /\ req[r].op # "none"
        /\ req[r].user = req[s].user
        /\ Missing(req[r]) /\ req[r].conv = 3 /\ OwnerOf(3) = req[r].user
        /\ NotOwned(req[s])
        /\ req[r].status = 404
        /\ Response(req[r]) = Response(req[s])

\* C16: once the client of a streamed exchange has disconnected, the
\* exchange takes no further item from the Generator's stream and writes no
\* further chunk event to the channel.
C16_StopsOnDisconnect ==
    [][\A r \in Reqs :
        req[r].closed
            => /\ req[r]'.yielded = req[r].yielded \/ req[r]'.pc = "done"
               /\ ChunkContents(req[r]'.events, Len(req[r]'.events))
                    = ChunkContents(req[r].events, Len(req[r].events))]_vars

\* C17: once a deletion of a conversation has completed (its document is
\* gone), the Message collection holds no message that references it.
C17_DeleteCascade ==
    \A c \in ConvIds : ~convs[c].exists => MessagesOf(c) = << >>

\* messageCount of conversation c at the start.
InitialCount(c) == IF c = 2 THEN SHORT_TERM_LIMIT ELSE 0

\* C18: when k exchanges on a conversation, buffered or streamed and
\* overlapping in any way, have all completed their update of messageCount,
\* messageCount is 2k above its value before them.
C18_AtomicIncrement ==
    \A c \in LiveConvs :
        (convs[c].exists
            /\ \A r \in Reqs :
                  (Exchange(req[r]) /\ req[r].conv = c) => req[r].pc = "done")
        => convs[c].messageCount = InitialCount(c) + 2 * hist.updated[c]

\* C19: no step lowers the messageCount of a conversation.
C19_CountMonotonic ==
    [][\A c \in ConvIds :
        (convs[c].exists /\ convs[c]'.exists)
            => convs[c]'.messageCount >= convs[c].messageCount]_vars

\* The calls an exchange may be suspended on right after the one named pc.
Follows(pc) ==
    CASE pc = "findConv" -> {"createUser"}
      [] pc = "createUser" -> {"shortTerm"}
      [] pc = "shortTerm" -> {"search"}
      [] pc = "search" -> {"generate", "genStream"}
      [] pc = "generate" -> {"createAi"}
      [] pc = "genStream" -> {"iterate"}
      [] pc = "iterate" -> {"iterate", "createAi"}
      [] pc = "createAi" -> {"update"}
      [] pc = "update" -> {}
      [] OTHER -> {}

\* What C20 says of a state.
C20_StepOrderState ==
    \A r \in Reqs :
        LET q == req[r]
        IN  Exchange(q) =>
              /\ q.pc \in {"findConv", "createUser"} =>
                    q.userMsg = 0 /\ q.embedCalls = 0 /\ q.genCalls = 0
              /\ q.pc = "shortTerm" => q.userMsg # 0 /\ q.genCalls = 0
              /\ q.embedCalls > 0 => q.userMsg # 0
              /\ q.genCalls > 0 => q.userMsg # 0 /\ q.embedCalls > 0
              /\ q.pc \in {"generate", "genStream", "iterate", "createAi"} =>
                    q.genCalls = 1 /\ q.aiMsg = 0
              /\ q.aiMsg # 0 =>
                    /\ q.genCalls = 1
                    /\ q.pc \in {"update", "done"}
                    /\ q.aiMsg > q.userMsg

\* C20: the steps of an exchange come in the order ownership check, user
\* message persisted, context assembled, Generator called, model message
\* persisted, messageCount updated, archival triggered when the count passes
\* 20: an exchange moves from each call to the next one of that order or
\* ends; a user message is created only by an exchange that has passed its
\* ownership check and not yet called the Generator, a model message only by
\* an exchange whose generation has completed; messageCount is written, and
\* an archival run started, only by the step that follows the creation of
\* the model message.
C20_StepOrder ==
    /\ []C20_StepOrderState
    /\ [][/\ \A r \in Reqs :
              (Exchange(req[r]) /\ req[r].pc \notin {"idle", "done"}
                    /\ req[r]'.pc # req[r].pc)
                 => req[r]'.pc \in Follows(req[r].pc) \cup {"done"}
          /\ Len(msgs') > Len(msgs) =>
                LET m == msgs'[Len(msgs')]
                IN  \E r \in Reqs :
                      \/ /\ m.role = "user"
                         /\ req[r].pc = "createUser" /\ req[r]'.pc = "shortTerm"
                         /\ req[r]'.userMsg = m.id /\ req[r].genCalls = 0
                      \/ /\ m.role = "model"
                         /\ req[r].pc = "createAi" /\ req[r]'.pc = "update"
                         /\ req[r]'.aiMsg = m.id /\ m.content = req[r].full
                         /\ req[r].genCalls = 1
          /\ \A c \in ConvIds :
                convs[c]'.messageCount # convs[c].messageCount =>
                    \E r \in Reqs :
                        /\ req[r].pc = "update" /\ req[r]'.pc = "done"
                        /\ req[r].conv = c /\ req[r].aiMsg # 0
          /\ \A e \in DOMAIN arch :
                (arch[e].pc = "none" /\ arch[e]'.pc # "none") =>
                    \E r \in Reqs :
                        /\ req[r].pc = "update" /\ req[r]'.pc = "done"
                        /\ req[r].serial = e /\ req[r].aiMsg # 0
                        /\ req[r].snap + 2 > 20
                        /\ arch[e]'.pc = "find" /\ arch[e]'.conv = req[r].conv
                        /\ convs[req[r].conv]'.exists =>
                              convs[req[r].conv]'.messageCount = req[r].snap + 2
         ]_vars

\* An exchange on the 20-message conversation has gone through every step:
\* answered 200, both messages in the store, messageCount 22, its archival
\* run started.
C20_Witness ==
    \E r \in Reqs : \E e \in DOMAIN arch :
        /\ Exchange(req[r]) /\ req[r].pc = "done" /\ req[r].conv = 2
        /\ InStore(req[r].userMsg) /\ InStore(req[r].aiMsg)
        /\ convs[2].messageCount = SHORT_TERM_LIMIT + 2
        /\ arch[e].pc = "find" /\ arch[e].conv = 2

\* The step of r is the one on which its messageCount update settles.
UpdateSettles(r) ==
    Exchange(req[r]) /\ req[r].pc = "update" /\ req[r]'.pc = "done"
\* ... and the update succeeded: the exchange has completed.
Completes(r) ==
    /\ UpdateSettles(r)
    /\ \/ req[r].op = "send" /\ req[r]'.status = 200
       \/ req[r].op = "stream" /\ req[r]'.events = req[r].events

\* C21: an exchange, buffered or streamed, starts an archival run exactly
\* when it completes and the messageCount it has written is greater than 20:
\* at 20 or below no run starts, above 20 one starts at every completed
\* exchange, and nothing else starts a run.
C21_TriggerAboveLimit ==
    [][/\ \A r \in Reqs :
            UpdateSettles(r) =>
                LET e == req[r].serial
                    c == req[r].conv
                IN  /\ (Completes(r) /\ convs'[c].exists)
                        => convs'[c].messageCount = req[r].snap + 2
                    /\ (arch'[e] # arch[e])
                        <=> (Completes(r) /\ req[r].snap + 2 > 20)
                    /\ (arch'[e] # arch[e])
                        => /\ arch[e].pc = "none"
                           /\ arch'[e].pc = "find"
                           /\ arch'[e].conv = c /\ arch'[e].user = req[r].user
       /\ \A e \in DOMAIN arch :
            (arch[e].pc = "none" /\ arch[e]' # arch[e])
                => \E r \in Reqs : Completes(r) /\ req[r].serial = e
      ]_vars

\* On the conversation at the limit the late exchange has completed writing
\* messageCount 20 and started no run, and the exchange accepted after it has
\* completed writing 22 and started one.
C21_Witness ==
    /\ req["r1"].pc = "done" /\ req["r1"].op = "send" /\ req["r1"].status = 200
    /\ req["r1"].conv = 1
    /\ arch[1].pc = "none"
    /\ req["r2"].pc = "done" /\ req["r2"].op = "stream" /\ req["r2"].conv = 1
    /\ req["r2"].ended /\ req["r2"].events # << >>
    /\ req["r2"].events[Len(req["r2"].events)].type = "done"
    /\ arch[2].pc = "find" /\ arch[2].conv = 1
    /\ hist.updated[1] = 2
    /\ convs[1].messageCount \in {20, 22}

\* C22: the exchange that starts an archival run does not wait for it: the
\* step that starts the run is the step on which the exchange returns its
\* result (buffered: 200 with both messages) or closes its channel
\* (streamed), the run being still suspended on its first call; so in every
\* state in which a run is pending or over, the exchange that started it has
\* returned.
C22_FireAndForget ==
    /\ [](\A e \in DOMAIN arch :
            arch[e].pc # "none" => \A r \in Reqs : req[r].serial # e)
    /\ [][\A r \in Reqs :
            (UpdateSettles(r) /\ arch'[req[r].serial] # arch[req[r].serial])
                => /\ arch'[req[r].serial].pc = "find"
                   /\ req[r]'.pc = "done"
                   /\ req[r].op = "send" =>
                        /\ req[r]'.status = 200
                        /\ InStore(req[r]'.userMsg) \/ Removed(req[r]'.userMsg)
                        /\ InStore(req[r]'.aiMsg) \/ Removed(req[r]'.aiMsg)
                   /\ req[r].op = "stream" =>
                        /\ req[r]'.ended
                        /\ req[r]'.events = req[r].events]_vars

\* A streamed exchange has closed its channel after its done event while
\* the archival run it started is still suspended on generateEmbeddings.
C22_Witness ==
    \E r \in Reqs : \E e \in DOMAIN arch :
        /\ req[r].op = "stream" /\ req[r].pc = "done" /\ req[r].ended
        /\ req[r].events # << >>
        /\ req[r].events[Len(req[r].events)].type = "done"
        /\ arch[e].pc = "embed" /\ arch[e].conv = req[r].conv
        /\ \A s \in Reqs : s # r => req[s].pc = "idle"

\* C23: once an archival run on a conversation has failed, every exchange
\* that completes on that conversation afterwards, the next one in
\* particular, starts a new archival run.
C23_RetryAfterFailure ==
    [][\A r \in Reqs :
        (/\ Completes(r)
         /\ \E e \in DOMAIN arch :
                arch[e].pc = "caught" /\ arch[e].conv = req[r].conv)
            => arch'[req[r].serial].pc = "find"]_vars

\* C24: an archival run that loads n messages does nothing when n <= 20 (it
\* returns at once: no embedding call, no upsert, no flag change); when
\* n > 20 what it sets aside to archive is exactly the n - 20 oldest
\* messages, oldest first, and none of the 20 newest.
C24_EligibleSet ==
    [][\A e \in DOMAIN arch :
        (arch[e].pc = "find" /\ arch'[e] # arch[e])
            => LET all == MessagesOf(arch[e].conv)
                   n == Len(all)
               IN  /\ index' = index /\ convs' = convs
                   /\ n <= 20 => arch'[e].pc \in {"done", "caught"}
                   /\ n > 20 => arch'[e].pc \in {"findConv", "caught"}
                   /\ arch'[e].pc = "findConv" =>
                        /\ arch'[e].toArchive = [i \in 1..(n - 20) |-> all[i]]
                        /\ \A i \in (n - 19)..n :
                              \A j \in DOMAIN arch'[e].toArchive :
                                  arch'[e].toArchive[j].id # all[i].id]_vars

\* A run has loaded a conversation of 21 messages and set aside the oldest
\* one alone.
C24_Witness ==
    \E e \in DOMAIN arch :
        /\ arch[e].pc = "findConv"
        /\ Len(MessagesOf(arch[e].conv)) = 21
        /\ arch[e].toArchive = <<MessagesOf(arch[e].conv)[1]>>

\* The line archiveToLongTermMemory writes for message m.
Line(m) ==
    [label |-> IF m.role = "user" THEN "User" ELSE "AI",
     content |-> m.content, turn |-> m.id]

\* C25: a run that set aside e messages builds ceil(e / 4) chunks, none
\* empty, every chunk but the last of 4 lines and the last of 1 to 4; the
\* chunks concatenated are the lines of the e messages in their order, each
\* labelled User or AI after its role; and its upsert adds one record per
\* chunk, carrying that chunk's text, to the namespace of the user.
C25_Chunking ==
    [][\A e \in DOMAIN arch :
        /\ (arch[e].pc = "findConv" /\ arch'[e].pc = "embed") =>
              LET el == arch[e].toArchive
                  ch == arch'[e].chunks
                  k == Len(ch)
              IN  /\ k = (Len(el) + 3) \div 4
                  /\ k >= 1
                  /\ \A i \in 1..k :
                        /\ Len(ch[i]) >= 1 /\ Len(ch[i]) <= 4
                        /\ i < k => Len(ch[i]) = 4
                  /\ Concat(ch) = [j \in 1..Len(el) |-> Line(el[j])]
        /\ (arch[e].pc = "upsert" /\ arch'[e].pc = "flag") =>
              LET ch == arch[e].chunks
                  new == index' \ index
              IN  /\ Cardinality(new) = Len(ch)
                  /\ \A i \in DOMAIN ch :
                        Cardinality({v \in new : v.text = ch[i]}) >= 1
                  /\ \A v \in new :
                        /\ v.ns = arch[e].user /\ v.userId = arch[e].user
                        /\ v.conv = arch[e].conv
                        /\ \E i \in DOMAIN ch : v.text = ch[i]]_vars

\* A run on a conversation of 29 messages has upserted 3 records: two of 4
\* lines and one of 1.
C25_Witness ==
    \E e \in DOMAIN arch :
        LET mine == {v \in index : v.id[1] = e}
        IN  /\ arch[e].pc = "flag"
            /\ Len(MessagesOf(arch[e].conv)) = 29
            /\ Cardinality(mine) = 3
            /\ Cardinality({v \in mine : Len(v.text) = 4}) = 2
            /\ Cardinality({v \in mine : Len(v.text) = 1}) = 1

\* C26: archival is additive: no step removes or alters a record the index
\* holds, and the upsert of a run adds one record per chunk, each under an
\* id its namespace did not hold.
C26_Additive ==
    [][/\ index \subseteq index'
       /\ \A e \in DOMAIN arch :
            (arch[e].pc = "upsert" /\ arch'[e].pc = "flag") =>
                /\ Cardinality(index' \ index) = Len(arch[e].chunks)
                /\ \A v \in index' \ index :
                      \A w \in index : ~(w.ns = v.ns /\ w.id = v.id)]_vars

\* Two runs have archived the same conversation and the records of both,
\* and the record the namespace held before, are in the index.
C26_Witness ==
    /\ SeedVectors \subseteq index
    /\ \E v, w \in index :
          /\ v.conv = w.conv /\ v.ns = w.ns
          /\ v.id[1] # 0 /\ w.id[1] # 0 /\ v.id[1] # w.id[1]
          /\ \E s \in SeedVectors : s.ns = v.ns

\* The turns whose text record v contains.
TurnsIn(v) == {v.text[i].turn : i \in DOMAIN v.text}

\* C27: each aged-out turn's text is contained in at most one record: no two
\* records of the same conversation contain the same turn.
C27_OncePerTurn ==
    \A v, w \in index :
        (v # w /\ v.conv = w.conv) => TurnsIn(v) \cap TurnsIn(w) = {}

\* C28: memoryStored of a conversation turns true only in the step of an
\* archival run of that conversation whose upsert has succeeded (the run is
\* suspended on the flag update and its records are in the index); a run
\* that returns at or below the limit, or fails before or during its
\* upsert, leaves every flag as it was; and no step turns the flag of a
\* conversation from true to false.
C28_FlagAfterUpsert ==
    [][/\ \A c \in ConvIds :
            /\ (~convs[c].memoryStored /\ convs'[c].memoryStored) =>
                  \E e \in DOMAIN arch :
                      /\ arch[e].pc = "flag" /\ arch[e].conv = c
                      /\ arch'[e].pc = "done"
                      /\ \E v \in index : v.id[1] = e /\ v.conv = c
            /\ (convs[c].memoryStored /\ convs'[c].exists) =>
                  convs'[c].memoryStored
       /\ \A e \in DOMAIN arch :
            (/\ arch[e].pc \in {"find", "findConv", "embed", "upsert"}
             /\ arch'[e].pc \in {"done", "caught"})
                => \A c \in ConvIds :
                      convs'[c].memoryStored = convs[c].memoryStored]_vars

\* A run whose upsert succeeded has set the flag of its conversation, and
\* its records are in the index.
C28_Witness ==
    \E c \in ConvIds :
        /\ convs[c].exists /\ convs[c].memoryStored
        /\ \E v \in index : v.conv = c /\ v.id[1] # 0

\* The min(n, SHORT_TERM_LIMIT) newest of the n messages of conversation c,
\* oldest first.
Window(c) ==
    LET all == MessagesOf(c)
        n == Len(all)
        k == IF n < SHORT_TERM_LIMIT THEN n ELSE SHORT_TERM_LIMIT
    IN  [i \in 1..k |-> all[n - k + i]]

\* C29: getShortTermContext returns, of the n messages a conversation holds,
\* exactly the min(n, 20) most recent, oldest first, and that is what the
\* handler holds as its history when the call resolves.
C29_ShortTermWindow ==
    [][\A r \in Reqs :
        (req[r].pc = "shortTerm" /\ req'[r].pc = "search") =>
            LET c == req[r].conv
                w == Window(c)
            IN  /\ getShortTermContext(c) = w
                /\ Len(req'[r].history) = Len(w)
                /\ \A i \in DOMAIN w :
                      /\ req'[r].history[i].role = w[i].role
                      /\ req'[r].history[i].text = w[i].content]_vars

\* A handler holds a window of 20 entries loaded from a conversation of more
\* than 20 messages.
C29_Witness ==
    \E r \in Reqs :
        /\ req[r].pc = "search"
        /\ Len(req[r].history) = SHORT_TERM_LIMIT
        /\ Len(MessagesOf(req[r].conv)) > SHORT_TERM_LIMIT

\* C30: the turns handed to the Generator end with the new inbound message,
\* contain it once (on a conversation whose only message is that one they
\* are that message alone), and alternate requester / generator.
C30_InboundOnce ==
    \A r \in Reqs :
        req[r].pc \in {"generate", "genStream"} =>
            LET h == req[r].history
                new == [role |-> "user", text |-> req[r].text]
            IN  /\ Len(h) >= 1 /\ h[Len(h)] = new
                /\ \A i \in 1..(Len(h) - 1) : h[i].role # h[i + 1].role
                /\ Len(MessagesOf(req[r].conv)) = 1 => h = <<new>>

\* C31: at the call of the Generator the instruction starts with the prompt
\* of the persona of the conversation and holds no other prompt; with no
\* memory it is that prompt alone; with memories it is the prompt, one
\* guidance block, and the text of every memory in the order retrieval
\* returned them, a separator between each two.
C31_Instruction ==
    \A r \in Reqs :
        req[r].pc \in {"generate", "genStream"} =>
            LET s == systemInstruction(req[r])
                mem == req[r].memories
                n == Len(mem)
            IN  /\ s[1] = SYSTEM_PROMPTS[req[r].chatRole]
                /\ convs[req[r].conv].exists =>
                      req[r].chatRole = convs[req[r].conv].chatRole
                /\ \A i \in 2..Len(s) : s[i].part # "prompt"
                /\ n = 0 => Len(s) = 1
                /\ n > 0 =>
                      /\ Len(s) = 2 * n + 1
                      /\ s[2] = GUIDANCE
                      /\ \A i \in 3..Len(s) : s[i] # GUIDANCE
                      /\ \A i \in 1..n :
                            s[2 * i + 1] = [part |-> "memory", text |-> mem[i].text]
                      /\ \A i \in 1..(n - 1) : s[2 * i + 2] = SEPARATOR

\* The Generator is being called with three memories in the instruction.
C31_Witness ==
    \E r \in Reqs :
        /\ req[r].pc \in {"generate", "genStream"}
        /\ Len(req[r].memories) = 3
        /\ Len(systemInstruction(req[r])) = 7

\* The position of the match read from vector id in the matches mat.
PositionIn(mat, id) == CHOOSE j \in DOMAIN mat : mat[j].id = id

\* C32: the fragments of a search come by descending score, and two
\* fragments (of equal score or not) come in the order in which the index
\* returned their matches.
C32_FragmentOrder ==
    \A r \in Reqs :
        LET mem == req[r].memories
            mat == req[r].matches
        IN  mat # << >> =>
                \A i, j \in DOMAIN mem :
                    i < j =>
                        /\ mem[i].score >= mem[j].score
                        /\ PositionIn(mat, mem[i].vec) < PositionIn(mat, mem[j].vec)

\* A search returned at least three fragments, two of them of equal score
\* and one of a higher score.
C32_Witness ==
    \E r \in Reqs :
        LET mem == req[r].memories
        IN  /\ req[r].matches # << >>
            /\ \E i, j, k \in DOMAIN mem :
                  /\ i < j /\ j < k
                  /\ mem[i].score > mem[j].score
                  /\ mem[j].score = mem[k].score

\* Every record is in the namespace of the user it is tagged with, who owns
\* the conversation it was made from.
OwnNamespace(idx) ==
    \A v \in idx : v.ns = v.userId /\ v.userId = OwnerOf(v.conv)

\* C33: every record of the index is in the namespace of the owner of its
\* conversation and tagged with that owner; the upsert of a run writes only
\* to the namespace of the user whose exchange started it, the owner of the
\* conversation; and the matches of a query all come from the namespace of
\* the requester.
C33_NamespaceAlways ==
    [][/\ OwnNamespace(index) /\ OwnNamespace(index')
       /\ \A e \in DOMAIN arch :
             (arch[e].pc = "upsert" /\ arch'[e].pc = "flag") =>
                 /\ arch[e].user = OwnerOf(arch[e].conv)
                 /\ index' # index
                 /\ \A v \in index' \ index :
                       v.ns = arch[e].user /\ v.userId = arch[e].user
       /\ \A r \in Reqs :
             (req[r].pc = "search" /\ req'[r].pc \in {"generate", "genStream"}) =>
                 \A j \in DOMAIN req'[r].matches :
                     \E v \in index :
                         /\ v.id = req'[r].matches[j].id
                         /\ v.ns = req[r].user
                         /\ req'[r].matches[j].metadata.userId = req[r].user]_vars

\* A run has written records to the namespace of B and a query has returned
\* matches to a requester.
C33_Witness ==
    /\ \E v \in index : v.id[1] # 0 /\ v.ns = "B"
    /\ \E r \in Reqs : Len(req[r].matches) >= 1

\* A query of the owner of record v to which the index reports v as the one
\* similar vector returns v among its fragments.
Retrievable(v) ==
    LET sim == {<<w.id, IF w = v THEN 9 ELSE NoScore>> : w \in index}
    IN  \A m \in QueryMatches(SearchNamespace(v.userId), sim, MEMORY_SEARCH_LIMIT) :
            \E i \in DOMAIN RelevantMemories(m) : RelevantMemories(m)[i].vec = v.id

\* C34: no step of a deletion changes the index, and a record made from a
\* conversation that has been deleted is still returned to its owner by a
\* query it is similar to.
C34_DeleteKeepsMemories ==
    [][/\ \A r \in Reqs :
            (req[r].op = "delete" /\ req'[r] # req[r]) => index' = index
       /\ \A v \in index' :
            ~convs'[v.conv].exists => Retrievable(v)']_vars

\* Conversation 2 has been deleted by its owner, and the records a run made
\* from its messages are in the index.
C34_Witness ==
    /\ ~convs[2].exists
    /\ \E r \in Reqs : req[r].op = "delete" /\ req[r].conv = 2 /\ req[r].status = 200
    /\ \E v \in index : v.conv = 2 /\ v.id[1] # 0 /\ Retrievable(v)

\* ------------------------------------------------- equal timestamps

\* Message.timestamp (default Date.now): a message that carries none in the
\* model was created in a millisecond of its own, in the order of the ids.
Timestamp(m) == IF "timestamp" \in DOMAIN m THEN m.timestamp ELSE m.id

\* Message.find(...).sort({ timestamp: dir }) over the messages S: the ways
\* to list them by timestamp (dir = 1 oldest first, dir = -1 newest first).
\* The sort key is the timestamp alone, so messages of equal timestamp come
\* in an order the database chooses.
RECURSIVE SortByTimestamp(_, _)
SortByTimestamp(S, dir) ==
    IF S = {} THEN {<< >>}
    ELSE LET first == {m \in S : \A w \in S :
                          dir * Timestamp(m) <= dir * Timestamp(w)}
         IN  UNION {{<<m>> \o rest : rest \in SortByTimestamp(S \ {m}, dir)} :
                        m \in first}

\* The messages of conversation c, as a set.
MessageSet(c) == {msgs[i] : i \in {j \in DOMAIN msgs : msgs[j].conv = c}}

\* Longest run of messages created in the same millisecond.
MaxTied == 3
\* Messages a conversation holds beyond SHORT_TERM_LIMIT - 1.
MaxOver == 4

\* Conversation 2 holds n messages, g of which, from the p-th on, were
\* created in the same millisecond; an exchange is suspended on its
\* getShortTermContext and an archival run on its Message.find.
TieInit ==
    /\ convs = [c \in ConvIds |->
            [exists |-> c \in LiveConvs, user |-> OwnerOf(c),
             chatRole |-> IF c = 1 THEN "coder" ELSE "assistant",
             messageCount |-> IF c = 2 THEN SHORT_TERM_LIMIT + 2 ELSE 0,
             lastActivity |-> 1, memoryStored |-> FALSE]]
    /\ \E n \in (SHORT_TERM_LIMIT - 1)..(SHORT_TERM_LIMIT - 1 + MaxOver) :
          \E p \in 1..n, g \in 1..MaxTied :
              /\ p + g - 1 <= n
              /\ msgs = [i \in 1..n |->
                    [id |-> i, conv |-> 2,
                     role |-> IF i % 2 = 1 THEN "user" ELSE "model",
                     content |-> [j \in 1..i |-> "a"],
                     timestamp |-> IF i >= p /\ i < p + g THEN p ELSE i]]
              /\ nextId = n + 1
    /\ index = SeedVectors
    /\ req = [r \in Reqs |->
                IF r = "r1"
                THEN [IdleReq EXCEPT !.pc = "shortTerm", !.op = "send",
                                     !.user = "B", !.conv = 2,
                                     !.text = <<"a">>,
                                     !.snap = SHORT_TERM_LIMIT + 2,
                                     !.serial = 1]
                ELSE IdleReq]
    /\ started = 1
    /\ clock = 1
    /\ arch = [e \in 1..MaxStarts |->
                IF e = 2
                THEN [NoArchive EXCEPT !.pc = "find", !.conv = 2, !.user = "B"]
                ELSE NoArchive]
    /\ hist = [inbound |-> [c \in LiveConvs |-> 0],
               completed |-> [c \in LiveConvs |-> 0],
               updated |-> [c \in LiveConvs |-> 0],
               removed |-> {}]

\* ShortTermContext, with the orders the query can return messages of equal
\* timestamp in.
ShortTermContextTied(r) ==
    /\ req[r].pc = "shortTerm"
    /\ LET q == req[r]
       IN  \/ req' = [req EXCEPT ![r] = ControllerCatch(q, DB_ERROR)]
           \/ \E found \in SortByTimestamp(MessageSet(q.conv), 0 - 1) :
                req' = [req EXCEPT ![r] =
                    [q EXCEPT !.pc = "search", !.embedCalls = @ + 1,
                              !.history = FormatHistory(
                                  Reverse(Limit(found, SHORT_TERM_LIMIT)))]]
    /\ UNCHANGED <<convs, msgs, index, nextId, started, clock, arch, hist>>

\* ArchiveLoad, with the orders the query can return messages of equal
\* timestamp in.
ArchiveLoadTied(e) ==
    /\ arch[e].pc = "find"
    /\ LET a == arch[e]
       IN  \/ ArchiveCaught(e)
           \/ \E all \in SortByTimestamp(MessageSet(a.conv), 1) :
                \/ /\ Len(all) <= SHORT_TERM_LIMIT
                   /\ ArchiveReturned(e)
                \/ /\ Len(all) > SHORT_TERM_LIMIT
                   /\ arch' = [arch EXCEPT ![e] =
                        [a EXCEPT !.pc = "findConv",
                                  !.toArchive = Slice(all, 0, Len(all) - SHORT_TERM_LIMIT)]]
    /\ UNCHANGED <<convs, msgs, index, req, nextId, started, clock, hist>>

TieNext ==
    \/ \E r \in Reqs : ShortTermContextTied(r)
    \/ \E e \in 1..MaxStarts : ArchiveLoadTied(e)

\* The two readers of the Message collection applied to one state of it.
TieSpec == TieInit /\ [][TieNext]_vars

\* C35: when the window loader and an archival run have both read the same
\* more than 20 messages of a conversation, no message is both in the window
\* and set aside for archival, and every message is in one of the two.
C35_WindowAndEligible ==
    \A r \in Reqs, e \in DOMAIN arch :
        (/\ req[r].pc = "search" /\ arch[e].pc = "findConv"
         /\ req[r].conv = arch[e].conv
         /\ Len(MessagesOf(req[r].conv)) > SHORT_TERM_LIMIT)
            => LET window == {req[r].history[i].text : i \in DOMAIN req[r].history}
                   eligible == {arch[e].toArchive[i].content :
                                    i \in DOMAIN arch[e].toArchive}
               IN  /\ window \cap eligible = {}
                   /\ \A m \in MessageSet(req[r].conv) :
                         m.content \in window \cup eligible

\* Run e is started by this step.
Triggered(e) == arch[e].pc # "find" /\ arch'[e].pc = "find"

\* C36: in every state the messageCount of a conversation is at most the
\* number of persisted messages that reference it, and a step that triggers
\* an archival run leaves more than 20 persisted messages in the
\* conversation of the run.
C36_NeverOverCounts ==
    [][/\ \A c \in LiveConvs :
            convs'[c].exists => convs'[c].messageCount <= Len(MessagesOf(c))'
       /\ \A e \in DOMAIN arch, c \in ConvIds :
            (Triggered(e) /\ arch'[e].conv = c)
                => Len(MessagesOf(c))' > SHORT_TERM_LIMIT]_vars

\* The exchange q has ended in failure: 500, or an error event last.
Failed(q) ==
    \/ q.status = 500
    \/ q.events # << >> /\ q.events[Len(q.events)].type = "error"

\* C37: the step in which an exchange that has persisted its user message
\* fails (at the Generator, while streaming, or at the creation of the model
\* message, buffered or streamed) leaves every conversation document as it
\* is and starts no archival run; and so does every earlier step of the
\* exchange after the user message was persisted.
C37_FailureLeavesConversation ==
    [][\A r \in Reqs :
        (/\ Exchange(req[r]) /\ req[r].userMsg # 0
         /\ req'[r] # req[r]
         /\ \/ req[r].pc \in {"shortTerm", "search", "generate", "genStream",
                              "iterate", "createAi"}
            \/ req[r].pc = "update" /\ Failed(req'[r]) /\ req'[r].pc = "done")
            => /\ convs' = convs
               /\ arch' = arch]_vars

\* A buffered exchange has failed at the creation of its model message and
\* a streamed one after a fragment was forwarded, both with their user
\* message persisted.
C37_Witness ==
    \E r, s \in Reqs :
        /\ req[r].op = "send" /\ req[r].pc = "done" /\ req[r].status = 500
        /\ req[r].message = DB_ERROR /\ req[r].userMsg # 0 /\ req[r].aiMsg = 0
        /\ req[s].op = "stream" /\ req[s].pc = "done" /\ Failed(req[s])
        /\ req[s].userMsg # 0 /\ req[s].aiMsg = 0
        /\ \E i \in DOMAIN req[s].events : req[s].events[i].type = "chunk"

\* C38: a streamed exchange that fails at its ownership lookup, at the
\* creation of its user message or while its context is assembled is
\* answered with an error status (404 or 500) on a channel that was never
\* opened: no event is written; and a streamed exchange answered
\* "Conversation not found" got 404, wrote no event and persisted no message.
C38_FailureBeforeChannel ==
    [][\A r \in Reqs :
        /\ (/\ req[r].op = "stream"
            /\ req[r].pc \in {"findConv", "createUser", "shortTerm"}
            /\ req'[r].pc = "done")
              => /\ req'[r].status \in {404, 500}
                 /\ req'[r].message # ""
                 /\ req'[r].events = << >>
                 /\ ~req'[r].headersSent /\ ~req'[r].ended
        /\ (req'[r].op = "stream" /\ req'[r].message = NOT_FOUND)
              => /\ req'[r].status = 404
                 /\ req'[r].events = << >>
                 /\ req'[r].userMsg = 0
                 /\ (req[r].pc = "findConv" => msgs' = msgs)]_vars

\* One streamed exchange was answered 404 with nothing persisted, another
\* 500 after its user message was persisted; neither wrote an event.
C38_Witness ==
    \E r, s \in Reqs :
        /\ req[r].op = "stream" /\ req[r].pc = "done"
        /\ req[r].status = 404 /\ req[r].userMsg = 0 /\ req[r].events = << >>
        /\ req[s].op = "stream" /\ req[s].pc = "done"
        /\ req[s].status = 500 /\ req[s].userMsg # 0 /\ req[s].events = << >>

\* C39: no persisted message and no chunk event has empty text; a buffered
\* exchange about to persist its model message holds a non-empty text (the
\* fallback when the Generator answered nothing); and a streamed exchange
\* whose stream ended without any text persists no model message and writes
\* an error event, not a done event.
C39_NoEmptyTurn ==
    [][/\ \A i \in DOMAIN msgs' : msgs'[i].content # << >>
       /\ \A r \in Reqs :
            /\ \A i \in DOMAIN req'[r].events :
                  req'[r].events[i].type = "chunk" =>
                      req'[r].events[i].content # << >>
            /\ (req'[r].op = "send" /\ req'[r].pc = "createAi") =>
                  req'[r].full # << >>
            /\ (/\ req[r].op = "stream" /\ req[r].pc = "createAi"
                /\ req[r].full = << >> /\ req'[r] # req[r]
                /\ req'[r].closed = req[r].closed)
                  => /\ msgs' = msgs
                     /\ req'[r].pc = "done" /\ req'[r].aiMsg = 0
                     /\ req'[r].events[Len(req'[r].events)].type = "error"
                     /\ \A i \in DOMAIN req'[r].events :
                           req'[r].events[i].type # "done"]_vars

\* A buffered exchange persisted the fallback text, and a streamed exchange
\* whose stream yielded no text ended with the error of the schema.
C39_Witness ==
    /\ \E i \in DOMAIN msgs : msgs[i].role = "model" /\ msgs[i].content = FALLBACK
    /\ \E r \in Reqs :
          /\ req[r].op = "stream" /\ req[r].pc = "done" /\ req[r].aiMsg = 0
          /\ req[r].events = <<ErrorEvent(VALIDATION_ERROR)>>

\* The step is one of an exchange or a deletion on conversation c, or of an
\* archival run of conversation c.
StepOn(c) ==
    \/ \E r \in Reqs :
          /\ req'[r] # req[r]
          /\ req[r].op \in {"send", "stream", "delete"} /\ req[r].conv = c
    \/ \E e \in DOMAIN arch :
          /\ arch'[e] # arch[e]
          /\ arch[e].pc \notin {"none", "done", "caught"} /\ arch[e].conv = c

\* C40: a step that changes the document of a conversation (messageCount,
\* lastActivity, memoryStored, existence) or its messages is a step of an
\* exchange, a deletion or an archival run on that conversation: a step on
\* conversation X leaves every other conversation Y as it is.
C40_Independent ==
    [][\A y \in ConvIds :
        (convs'[y] # convs[y] \/ MessagesOf(y)' # MessagesOf(y)) => StepOn(y)]_vars

\* An exchange and an archival run have acted on conversation 2 and an
\* exchange on conversation 1, each conversation showing its own effects.
C40_Witness ==
    /\ convs[2].memoryStored /\ convs[2].messageCount = 22
    /\ Len(MessagesOf(2)) = 22
    /\ convs[1].messageCount = 2 /\ ~convs[1].memoryStored
    /\ Len(MessagesOf(1)) = 2

====
